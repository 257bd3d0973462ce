--------------------------- MODULE MCProvisioning ---------------------------
(***************************************************************************)
(* Small instances of Provisioning for TLC.  One day has 10 time units; a  *)
(* class takes 2 and needs 1 of buffer on either side.                     *)
(***************************************************************************)
EXTENDS ProvisioningRefinement, TLC

CONSTANTS r1, r2, m1, m2, w1, w2, w3

Slot(a, b) == [start |-> a, end |-> b]
Req(i, d, a, b) == [info |-> i, date |-> d, slot |-> Slot(a, b)]

\* One class time; a second, adjacent one; the first with other class data; and
\* one whose start does not fall on the class date.
OneRequest == {Req("a", 0, 1, 3)}
ApartTimes == {Req("a", 0, 1, 3), Req("a", 0, 4, 6)}
DisjointTimes == {Req("a", 0, 1, 3), Req("a", 0, 5, 7)}
Variants   == {Req("a", 0, 1, 3), Req("b", 0, 1, 3), Req("a", 1, 1, 3)}

Body(f, v) == [FullBody EXCEPT ![f] = v]

Accepted     == Response(200, FullBody)
Incomplete   == Response(200, Body("url", "untrusted"))
Unstorable   == Response(200, Body("panel", "unwritable"))
Invalid      == Response(422, NoBody)
Unauthorized == Response(401, NoBody)
RateLimited  == Response(429, NoBody)
ServerError  == Response(503, NoBody)
TimedOut     == Response(408, NoBody)

AllAnswers == {Accepted, Incomplete, Unstorable, Invalid, Unauthorized,
               RateLimited, ServerError, TimedOut, Connect, Transport}
FewAnswers == {Accepted, Incomplete, Invalid, RateLimited, Transport}
RetryAnswers == {Accepted, RateLimited, Transport}
BadLogin == {Response(401, NoBody), Response(200, FullBody)}

OneRank == [r \in {r1} |-> 1]
TwoRanks == (r1 :> 1) @@ (r2 :> 2)
Unlimited(R) == [r \in R |-> NoLimit]
OneUnlimited == Unlimited({r1})
TwoUnlimited == Unlimited({r1, r2})
OneEach == [r \in {r1} |-> 1]

WorkerSymmetry == Permutations(Workers)
MeetingAndWorkerSymmetry == Permutations(Workers) \cup Permutations(Meetings)
=============================================================================
