------------------------------- MODULE EventFeed -------------------------------
(***************************************************************************)
(* What a durable subscriber of the event log wants: a queue.  Events are  *)
(* published in groups, a subscriber is handed the oldest ones in the      *)
(* order they were published, each once, and the only events it never gets *)
(* are those that were pruned first.                                       *)
(***************************************************************************)
EXTENDS Sequences, SequencesExt

VARIABLES
  published,  \* the events that were ever published
  queue,      \* those not handed out yet, oldest first
  handedOut   \* those handed out, in that order

feedVars == <<published, queue, handedOut>>

FeedInit == published = {} /\ queue = <<>> /\ handedOut = <<>>

\* Events that are new join the queue at its end, in any order among themselves.
Publish ==
  LET new == published' \ published
  IN  /\ new # {} /\ published \subseteq published'
      /\ queue' \in {queue \o s : s \in SetToSeqs(new)}
      /\ UNCHANGED handedOut

HandOut ==
  \E n \in 1 .. Len(queue) :
    /\ handedOut' = handedOut \o SubSeq(queue, 1, n)
    /\ queue' = SubSeq(queue, n + 1, Len(queue))
    /\ UNCHANGED published

\* What is left of q, whose elements are all different, in the same order.
IsLeftOf(s, q) ==
  /\ ToSet(s) \subseteq ToSet(q)
  /\ \A i, j \in DOMAIN s :
       i < j => \E m, n \in DOMAIN q : m < n /\ q[m] = s[i] /\ q[n] = s[j]

Drop == IsLeftOf(queue', queue) /\ UNCHANGED <<published, handedOut>>

FeedNext == Publish \/ HandOut \/ Drop

FeedSpec == FeedInit /\ [][FeedNext]_feedVars
=============================================================================
