---------------------------- MODULE GitHubWrite ----------------------------
(***************************************************************************)
(* What the controller promises about its writes to GitHub: the review of  *)
(* a head, the pull request of a fix, the merge of a head.  GitHub has no  *)
(* idempotency key, so "exactly once" is not on offer                      *)
(* (docs/operations/review-recovery.md says so); the promise is that the   *)
(* controller makes a write once of its own accord, never again while it   *)
(* does not know what became of the last request, again only when an       *)
(* administrator has granted one more request after seeing the last one,   *)
(* and calls it done only when GitHub has done it.                         *)
(***************************************************************************)
EXTENDS Naturals

CONSTANTS Target      \* what is written: one outbox row each

VARIABLES phase,      \* what the controller believes about the write
          sent,       \* the number of requests sent for it
          grants,     \* the requests after which an administrator granted one more
          published   \* the writes that GitHub has carried out

vars == <<phase, sent, grants, published>>

Phase == {"open", "writing", "doubt", "done"}

Init ==
    /\ phase = [w \in Target |-> "open"]
    /\ sent = [w \in Target |-> 0]
    /\ grants = [w \in Target |-> {}]
    /\ published = {}

\* One request leaves for GitHub: the first, or one granted after the last.
Write(w) ==
    /\ phase[w] = "open"
    /\ sent[w] = 0 \/ sent[w] \in grants[w]
    /\ phase' = [phase EXCEPT ![w] = "writing"]
    /\ sent' = [sent EXCEPT ![w] = @ + 1]
    /\ UNCHANGED <<grants, published>>

\* GitHub executes a request, early or late.
Publish(w) ==
    /\ sent[w] > 0
    /\ published' = published \cup {w}
    /\ UNCHANGED <<phase, sent, grants>>

\* The response to the request in flight is seen.
Answer(w) ==
    /\ phase[w] = "writing"
    /\ w \in published
    /\ phase' = [phase EXCEPT ![w] = "done"]
    /\ UNCHANGED <<sent, grants, published>>

\* A timeout, an error, a cancellation or a restart loses the response.
LoseTrack(w) ==
    /\ phase[w] = "writing"
    /\ phase' = [phase EXCEPT ![w] = "doubt"]
    /\ UNCHANGED <<sent, grants, published>>

\* The effect is found on GitHub, so nothing is left to write.
Identify(w) ==
    /\ phase[w] \in {"open", "doubt"}
    /\ w \in published
    /\ phase' = [phase EXCEPT ![w] = "done"]
    /\ UNCHANGED <<sent, grants, published>>

\* An administrator accepts the risk of one more request.
Grant(w) ==
    /\ phase[w] = "doubt"
    /\ phase' = [phase EXCEPT ![w] = "open"]
    /\ grants' = [grants EXCEPT ![w] = @ \cup {sent[w]}]
    /\ UNCHANGED <<sent, published>>

Next ==
    \E w \in Target :
        \/ Write(w) \/ Publish(w) \/ Answer(w)
        \/ LoseTrack(w) \/ Identify(w) \/ Grant(w)

Spec == Init /\ [][Next]_vars

=============================================================================
