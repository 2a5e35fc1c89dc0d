--------------------------- MODULE RequestResponse ---------------------------
(***************************************************************************)
(* What the host may rely on: it asks, and a request it asked gets at most *)
(* one reply, which is never taken back.                                   *)
(***************************************************************************)
CONSTANT Requests

VARIABLES
    asked,      \* requests the host sent
    replied     \* request -> status -> how often the host got it

vars == <<asked, replied>>

Statuses == {"Success", "Failure"}

NoReply == [status \in Statuses |-> 0]

Init == asked = {} /\ replied = [r \in Requests |-> NoReply]

Ask(r) ==
    /\ r \notin asked
    /\ asked' = asked \cup {r}
    /\ UNCHANGED replied

Reply(r, status) ==
    /\ r \in asked /\ replied[r] = NoReply
    /\ replied' = [replied EXCEPT ![r] = [NoReply EXCEPT ![status] = 1]]
    /\ UNCHANGED asked

Next == \E r \in Requests : Ask(r) \/ \E status \in Statuses : Reply(r, status)

Spec == Init /\ [][Next]_vars

==============================================================================
