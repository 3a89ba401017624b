----------------------------- MODULE Fragments -----------------------------
(***************************************************************************)
(* The reassembly of fragmented datagrams, pico_fragments.c: one datagram  *)
(* at a time for each family.  Fragments arrive in any order, any number   *)
(* of times, or never.  A fragment is named by its datagram and its place; *)
(* offsets in bytes, headers and payloads are left out, as is a lack of    *)
(* memory.                                                                 *)
(***************************************************************************)
EXTENDS Integers, Sequences

CONSTANTS Net,        \* "ipv4" or "ipv6": the code has a copy for each
          Datagrams,  \* name -> its identification, its source, its last fragment
          MaxTimers   \* how many forgotten timers there may be (bound)

VARIABLE frag

vars == <<frag>>

Init == frag = [tree |-> {},        \* ipv4_fragments, ordered by offset
                cur |-> 0,          \* ipv4_cur_frag_id
                own |-> FALSE,      \* the timer ipv4_fragments_timer names runs
                others |-> 0,       \* timers that run though their name was lost
                received |-> <<>>]  \* the last datagram given to the transport

Id(f) == Datagrams[f.of].id
More(f) == f.place < Datagrams[f.of].last
First(s) == CHOOSE f \in s.tree : \A g \in s.tree : f.place <= g.place

\* pico_ipv4_frag_timer_on: the timer that ran so far is not cancelled.
TimerOn(s, id) == [s EXCEPT !.own = TRUE, !.others = IF s.own THEN @ + 1 ELSE @,
                            !.cur = id]
\* pico_ipv4_frag_match, and the identification
Match(s, f) == \/ s.tree = {}
               \/ /\ Datagrams[f.of].source = Datagrams[First(s).of].source
                  /\ Id(f) = s.cur
\* (mutant: the fragment of another source is put in)
Insert_NoMatch(s, f) == IF \E g \in s.tree : g.place = f.place THEN s
                        ELSE [s EXCEPT !.tree = @ \cup {f}]
\* A fragment at an offset that is there already is not put in.
Insert(s, f) == IF ~Match(s, f) \/ \E g \in s.tree : g.place = f.place THEN s
                ELSE [s EXCEPT !.tree = @ \cup {f}]

\* pico_ipv4_fragments_complete and its twin: the first n are one datagram;
\* IPv6 keeps the identification and drops what comes late of it.
Complete6(s, n) ==
  [s EXCEPT !.received = [i \in 1..n |-> CHOOSE f \in s.tree : f.place = i],
            !.tree = {}, !.own = FALSE]
Complete4(s, n) == [Complete6(s, n) EXCEPT !.cur = 0]
\* pico_fragments_complete
Complete(s, n) == IF Net = "ipv4" THEN Complete4(s, n) ELSE Complete6(s, n)
\* The length up to the first hole, if the fragment before it is a last one.
Whole(s) == {n \in 1..8 : /\ \A i \in 1..n : \E f \in s.tree : f.place = i
                          /\ \E f \in s.tree : f.place = n /\ ~More(f)}
\* (mutant: only the last fragment is taken for the end)
CheckComplete_OnLast(s, f) == IF Whole(s) = {} \/ More(f) THEN s
                              ELSE Complete(s, CHOOSE n \in Whole(s) : TRUE)
CheckComplete(s, f) == IF Whole(s) = {} THEN s
                       ELSE Complete(s, CHOOSE n \in Whole(s) : TRUE)

\* A fragment of another datagram makes IPv4 forget the one in progress; its
\* offset is tested before it is read from the header, and is always 0.
Forget(s, f) == IF s.tree # {} /\ Id(f) # s.cur
                THEN [s EXCEPT !.tree = {}, !.cur = 0] ELSE s
\* (mutant: only the very first fragment starts the timer)
Begin_TimerOnce(s, f) == IF s.tree # {} THEN s
                         ELSE [TimerOn(s, Id(f)) EXCEPT !.own = (s.received = <<>>)]
Begin(s, f) == IF s.tree = {} THEN TimerOn(s, Id(f)) ELSE s
\* What is left of a datagram that expired is dropped.
Process6(s, f) == IF s.tree = {} /\ s.cur = Id(f) THEN s
                  ELSE CheckComplete(Insert(Begin(s, f), f), f)
Process4(s, f) == Process6(Forget(s, f), f)

Receive(d, place) ==
  /\ place \in 1..Datagrams[d].last
  /\ LET f == [of |-> d, place |-> place]
     IN frag' = IF Net = "ipv4" THEN Process4(frag, f) ELSE Process6(frag, f)
  /\ frag'.others <= MaxTimers

\* pico_frag_expire, of the timer of the datagram in progress or another
Expired(s) == [s EXCEPT !.tree = {}]
OwnExpires == /\ frag.own
              /\ frag' = [Expired(frag) EXCEPT !.own = FALSE]
OtherExpires == /\ frag.others > 0
                /\ frag' = [Expired(frag) EXCEPT !.others = @ - 1]

Next == \/ \E d \in DOMAIN Datagrams, place \in 1..8 : Receive(d, place)
        \/ OwnExpires \/ OtherExpires

Spec == Init /\ [][Next]_vars

-----------------------------------------------------------------------------
(* Properties.                                                             *)

\* What the transport is given is one datagram, its fragments in their order
\* and each once, whatever arrived in between (pico_fragments.c:153).
WholeDatagram == frag.received = <<>> \/
  \E d \in DOMAIN Datagrams :
    frag.received = [i \in 1..Datagrams[d].last |-> [of |-> d, place |-> i]]

\* A datagram does not wait once its fragments are all there, whichever of
\* them came last (pico_fragments.c:230).
CompleteIsDelivered == \A d \in DOMAIN Datagrams :
  \E i \in 1..Datagrams[d].last : [of |-> d, place |-> i] \notin frag.tree

\* A datagram in progress has a timer that ends it (pico_fragments.c:186).
InProgressIsTimed == frag.tree # {} => frag.own \/ frag.others > 0

\* The fragments of a datagram in progress stay when a fragment of another
\* one arrives that is not its first.
\* (The code breaks it: see the README.)
OnlyFirstReplaces ==
  [][frag.tree # {} /\ frag'.tree # {} /\ frag'.cur # frag.cur
     => \E f \in frag'.tree : f.place = 1]_vars
=============================================================================
