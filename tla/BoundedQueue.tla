----------------------------- MODULE BoundedQueue -----------------------------
(***************************************************************************)
(* What a mailbox promises: a queue of bounded length.  A mail that a      *)
(* writer offers is added at its end exactly once, and each mail is handed *)
(* to one reader, in the same order.                                       *)
(***************************************************************************)
EXTENDS Naturals, Sequences

CONSTANTS Capacity, Mail, Nothing, Writer, Reader

VARIABLES
  mailqueue,  \* the mails that were posted and not fetched
  offer,      \* the mail each writer is about to post, or Nothing
  got         \* the mail each reader fetched last

Init ==
  /\ mailqueue = << >>
  /\ offer = [w \in Writer |-> Nothing]
  /\ got \in [Reader -> Mail]

Offer(w) ==
  /\ offer[w] = Nothing
  /\ \E m \in Mail : offer' = [offer EXCEPT ![w] = m]
  /\ UNCHANGED <<mailqueue, got>>

Post(w) ==
  /\ offer[w] # Nothing
  /\ Len(mailqueue) < Capacity
  /\ mailqueue' = Append(mailqueue, offer[w])
  /\ offer' = [offer EXCEPT ![w] = Nothing]
  /\ UNCHANGED got

Fetch(r) ==
  /\ mailqueue # << >>
  /\ got' = [got EXCEPT ![r] = Head(mailqueue)]
  /\ mailqueue' = Tail(mailqueue)
  /\ UNCHANGED offer

Next == (\E w \in Writer : Offer(w) \/ Post(w)) \/ (\E r \in Reader : Fetch(r))

Spec == Init /\ [][Next]_<<mailqueue, offer, got>>
=============================================================================
