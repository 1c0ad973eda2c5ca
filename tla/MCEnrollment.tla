---------------------------- MODULE MCEnrollment ----------------------------
(***************************************************************************)
(* Small instances of EnrollmentHandler.                                   *)
(***************************************************************************)
EXTENDS EnrollmentHandler, TLC

CONSTANTS none, t1, s1, s2, s3

MCMembers == Signups \X (1..MaxSignupAttempts)

NobodyYet == [m \in MCMembers |-> none]

Signup(id, valid) == [id |-> id, valid |-> valid]

\* One event delivered twice, and an invalid one with the same id.
SharedId == s1 :> Signup(t1, TRUE) @@ s2 :> Signup(t1, TRUE) @@ s3 :> Signup(t1, FALSE)
=============================================================================
