-------------------------------- MODULE Mdns --------------------------------
(***************************************************************************)
(* Multicast DNS on a link of picoTCP hosts (pico_mdns.c): claiming unique *)
(* records by probing and announcing, tie-breaks between hosts that probe  *)
(* at once, conflicts and new names, queries and the cache.                *)
(*                                                                         *)
(* A record is a name and a type; its data is the host that claims it.     *)
(* Name k is the one asked for with suffix "-k".  A timer fires some time. *)
(* Where Reliable, what is sent is handled by the others before a timer    *)
(* fires (they are 250 ms and more); elsewhere it is lost, repeated and    *)
(* delayed.  Packets of other hosts' additional sections are ignored by    *)
(* the code.  Cookies without a question and shared records are left out.  *)
(***************************************************************************)
EXTENDS Integers, FiniteSets

CONSTANTS Hosts,         \* numbers: the data of the larger is lexically later
          Claims,        \* the types of records each host may claim
          Queries,       \* the types of records the applications ask for
          ProbeCount,    \* PICO_MDNS_PROBE_COUNT
          AnnounceCount, \* PICO_MDNS_ANNOUNCEMENT_COUNT
          MaxName,       \* suffixes
          Reliable

VARIABLES mdns, mail

vars == <<mdns, mail>>

\* my: records with flags; cookies: what the host is doing; out: messages of
\* the handler that runs.
Idle == [my |-> {}, cookies |-> {}, cache |-> {}, out |-> {}]
Init == mdns = [h \in Hosts |-> Idle] /\ mail = {}

Rec(r) == [name |-> r.name, type |-> r.type]
Names(c) == {r.name : r \in c.recs}
Of(recs, r) == {x \in recs : Rec(x) = Rec(r)}

\* What a handler has sent goes to the other hosts.
Sent(h, out) == {[m EXCEPT !.to = g] : m \in out, g \in Hosts \ {h}}
Post(h, k) ==
  /\ mdns' = [mdns EXCEPT ![h] = [k EXCEPT !.out = {}]]
  /\ mail' = (IF Reliable THEN mail \ {m \in mail : m.to = h} ELSE mail) \cup Sent(h, k.out)
Msg(h, kind, recs, auth) == [from |-> h, to |-> h, kind |-> kind, recs |-> recs, auth |-> auth]
Send(k, m) == [k EXCEPT !.out = @ \cup {m}]
\* Timers and applications act when the link is quiet, where it is reliable.
Quiet == Reliable => mail = {}

-----------------------------------------------------------------------------
(* Records and cookies.                                                    *)

Cookie(kind, recs, count) ==
  [kind |-> kind, recs |-> recs, count |-> count, status |-> "inactive",
   timer |-> TRUE, tree |-> TRUE]
SetCookie(k, c, d) == [k EXCEPT !.cookies = (@ \ {c}) \cup {d}]
DelCookie(k, c) == [k EXCEPT !.cookies = @ \ {c}]

\* pico_mdns_cookie_cmp: the same questions, of whichever kind
SameQuestions(c, d) ==
  /\ c.tree /\ Names(c) = Names(d)
  /\ (c.kind = "query") = (d.kind = "query") /\ (c.kind = "query" => c.recs = d.recs)

\* pico_mdns_ctree_find_cookie: questions for ANY come after those for a type
FindCookie(k, name, kinds) ==
  LET hit == {c \in k.cookies : c.tree /\ name \in Names(c) /\ c.kind \in kinds}
      q == {c \in hit : c.kind = "query"} IN
  IF q # {} THEN q ELSE hit

\* pico_mdns_my_records_claimed, of those the host still has
MarkClaimed(my, recs) ==
  {IF Rec(r) \in recs THEN [r EXCEPT !.flags = @ \cup {"claimed"}] ELSE r : r \in my}

\* pico_mdns_send_announcement_packet; what the cookie has is announced, and
\* at the end marked as claimed.
Announcement(h, k, c) ==
  LET d == [c EXCEPT !.kind = "announce", !.status = "active", !.count = @ - 1]
      s == Send(k, Msg(h, "answer", c.recs, {})) IN
  IF d.count > 0 THEN SetCookie(s, c, d)
  ELSE [DelCookie(s, c) EXCEPT !.my = MarkClaimed(@, c.recs)]

FindProbed(k) == {x \in k.my : "probed" \in x.flags /\ "claimed" \notin x.flags}
FindToProbe(k) == {r \in k.my : r.flags \cap {"probed", "probing"} = {}}

\* pico_mdns_announce
Announce(h, k) ==
  LET recs == {Rec(r) : r \in FindProbed(k)}
      c == [Cookie("announce", recs, AnnounceCount) EXCEPT !.tree = FALSE] IN
  IF recs = {} THEN k ELSE Announcement(h, k, c)

\* pico_mdns_probe: when a cookie has the same question, the new one is dropped and its records stay probing.
Probe(k) ==
  LET new == FindToProbe(k)
      c == Cookie("probe", {Rec(r) : r \in new}, ProbeCount)
      m == [k EXCEPT !.my = (@ \ new) \cup {[r EXCEPT !.flags = @ \cup {"probing"}] : r \in new}] IN
  IF new = {} \/ \E d \in k.cookies : SameQuestions(d, c) THEN m
  ELSE [m EXCEPT !.cookies = @ \cup {c}]

\* pico_mdns_my_records_add: a record whose name and type is there is not added
MyRecordsAdd(k, recs) == [k EXCEPT !.my = @ \cup {r \in recs : Of(k.my, r) = {}}]
ClaimGeneric(h, k, recs) == Announce(h, Probe(MyRecordsAdd(k, recs)))

\* pico_mdns_resolve_name_conflict, pico_mdns_record_copy_with_new_name
NewName(r) == [r EXCEPT !.name = @ + 1]

-----------------------------------------------------------------------------
(* Timers and calls of the application.                                    *)

\* pico_mdns_set_hostname and pico_mdns_claim, of one record
Claim(h) == \E t \in Claims[h] :
  /\ Quiet /\ \A r \in mdns[h].my : r.type # t
  /\ Post(h, ClaimGeneric(h, mdns[h], {[name |-> 1, type |-> t, flags |-> {}]}))

\* pico_mdns_send_probe_packet, with pico_mdns_my_records_probed
\* (mutant: a record that is verified is still being probed)
Probed_Both(r) == [r EXCEPT !.flags = @ \cup {"probed"}]
Probed(r) == [r EXCEPT !.flags = (@ \cup {"probed"}) \ {"probing"}]
ProbeTimer(h, k, c) ==
  IF c.count > 0
  THEN SetCookie(Send(k, Msg(h, "probe", {}, c.recs)), c,
                 [c EXCEPT !.status = "active", !.count = @ - 1])
  ELSE LET m == [SetCookie(k, c, [c EXCEPT !.count = AnnounceCount]) EXCEPT
                   !.my = {IF Rec(r) \in c.recs THEN Probed(r) ELSE r : r \in @}] IN
       Announcement(h, m, [c EXCEPT !.count = AnnounceCount])

\* pico_mdns_send_query_packet; a query is sent once
QueryTimer(h, k, c) ==
  IF c.status = "cancelled" THEN DelCookie(k, c)
  ELSE SetCookie(Send(k, Msg(h, "query", c.recs, {})), c,
                 [c EXCEPT !.status = "active", !.timer = FALSE])

Timer(h) == \E c \in mdns[h].cookies :
  /\ Quiet /\ c.timer
  /\ Post(h, CASE c.kind = "probe" -> ProbeTimer(h, mdns[h], c)
               [] c.kind = "query" -> QueryTimer(h, mdns[h], c)
               [] c.kind = "announce" -> Announcement(h, mdns[h], c))

\* pico_mdns_getrecord and _generic: the cache has it, or a cookie asks for it
GetRecord(h) == \E t \in Queries :
  LET q == [name |-> 1, type |-> t]
      c == Cookie("query", {q}, 1)
      k == mdns[h] IN
  /\ Quiet /\ Of(k.cache, q) = {}
  /\ \A d \in k.cookies : ~SameQuestions(d, c)
  /\ Post(h, [k EXCEPT !.cookies = @ \cup {c}])

\* pico_mdns_tick: a query that has waited long, a cached record that is old
CookieExpires(h) == \E c \in mdns[h].cookies :
  /\ Quiet /\ c.kind = "query" /\ ~c.timer
  /\ Post(h, DelCookie(mdns[h], c))
RecordExpires(h) == \E r \in mdns[h].cache :
  Quiet /\ Post(h, [mdns[h] EXCEPT !.cache = @ \ {r}])

-----------------------------------------------------------------------------
(* What arrives.                                                           *)

\* pico_mdns_populate_antree: only records that are verified
Populate(k, name, types) ==
  {Rec(r) : r \in {x \in k.my : x.name = name /\ x.type \in types /\ "probed" \in x.flags}}

\* pico_mdns_handle_single_question: when the host itself asks for the name,
\* its query is cancelled and the question is not answered.
Question(h, k, name, types) ==
  LET mine == FindCookie(k, name, {"query"})
      answers == Populate(k, name, types) IN
  IF mine # {}
  THEN [k EXCEPT !.cookies = (@ \ mine) \cup {[c EXCEPT !.status = "cancelled"] : c \in mine}]
  ELSE IF answers # {} THEN Send(k, Msg(h, "answer", answers, {})) ELSE k

\* pico_mdns_record_am_i_lexi_later
LexiLater(h, g) == h > g

\* (mutant: the timer of the next probe is cancelled, and no other is set)
Defer_NoTimer(c) == [c EXCEPT !.status = "inactive", !.count = ProbeCount, !.timer = FALSE]
\* pico_mdns_cookie_apply_spt
Defer(c) == [c EXCEPT !.status = "inactive", !.count = ProbeCount, !.timer = TRUE]

\* pico_mdns_handle_single_authority and pico_mdns_cookie_apply_spt: the host
\* that is not later waits a second and starts again.
Authority(h, k, r, from) ==
  LET c == CHOOSE c \in FindCookie(k, r.name, {"probe"}) : TRUE
      probing == {x \in Of(k.my, r) : "probing" \in x.flags} IN
  IF FindCookie(k, r.name, {"probe"}) = {} \/ c.status # "active" THEN k
  ELSE IF probing = {} THEN SetCookie(k, c, [c EXCEPT !.status = "inactive"])
  ELSE IF LexiLater(h, from) THEN k
  ELSE SetCookie(k, c, Defer(c))

\* (mutant: the host keeps its name)
CookieConflict_Ignored(h, k, c, name) == k
\* pico_mdns_cookie_resolve_conflict, with pico_mdns_generate_new_records: all
\* records of the name go, those of the cookie come back with a new name.
NewRecords(recs) == {NewName([name |-> r.name, type |-> r.type, flags |-> {}]) : r \in recs}
CookieConflict(h, k, c, name) ==
  LET left == {r \in c.recs : r.name # name}
      d == IF left = {} THEN DelCookie(k, c)
           ELSE SetCookie(k, c, [c EXCEPT !.recs = left]) IN
  ClaimGeneric(h, [d EXCEPT !.my = {r \in @ : r.name # name}], NewRecords(c.recs \ left))

\* pico_mdns_record_resolve_conflict: the record keeps its flags
PassiveConflict(h, k, r) ==
  ClaimGeneric(h, [k EXCEPT !.my = @ \ {r}], {NewName(r)})

\* pico_mdns_cache_add_record of a record with the cache-flush bit
CacheAdd(k, r, from) ==
  [k EXCEPT !.cache = (@ \ Of(@, r)) \cup {[name |-> r.name, type |-> r.type, host |-> from]}]

\* pico_mdns_handle_single_answer, with pico_mdns_handle_cookie_with_answer:
\* the first cookie for the name, then the records, then the cache
Answer(h, k, r, from) ==
  LET found == FindCookie(k, r.name, {"query", "probe", "announce"})
      c == CHOOSE c \in found : TRUE
      a == IF found # {} /\ c.kind = "probe" /\ c.status = "active"
           THEN CookieConflict(h, k, c, r.name) ELSE k
      mine == {x \in Of(a.my, r) : "probing" \notin x.flags}
      b == IF mine # {} THEN PassiveConflict(h, a, CHOOSE x \in mine : TRUE) ELSE a IN
  CacheAdd(b, r, from)

\* pico_mdns_recv.  A message of records is handled one by one, in any order
\* of at most two.
One(h, k, m, r) == IF m.kind = "answer" THEN Answer(h, k, r, m.from)
                   ELSE Authority(h, k, r, m.from)
Each(h, k, m) ==
  LET recs == m.recs \cup m.auth IN
  {IF recs = {r} THEN One(h, k, m, r)
   ELSE One(h, One(h, k, m, r), m, CHOOSE x \in recs : x # r) : r \in recs}

Handled(h, k, m) ==
  CASE m.kind = "answer" -> Each(h, k, m)
    [] m.kind = "query" -> {Question(h, k, q.name, {q.type}) : q \in m.recs}
    [] m.kind = "probe" ->
         UNION {Each(h, Question(h, k, a.name, {"A", "TXT"}), m) : a \in m.auth}
Receive(h) == \E m \in mail :
  /\ m.to = h
  /\ \A r \in mdns[h].my : r.name < MaxName
  /\ \E d \in Handled(h, mdns[h], m) :
       /\ mdns' = [mdns EXCEPT ![h] = [d EXCEPT !.out = {}]]
       /\ mail' = (IF Reliable THEN mail \ {m} ELSE mail) \cup Sent(h, d.out)

Next == \E h \in Hosts : \/ Claim(h) \/ Timer(h) \/ Receive(h)
                         \/ GetRecord(h) \/ CookieExpires(h) \/ RecordExpires(h)

Spec == Init /\ [][Next]_vars

-----------------------------------------------------------------------------
(* Properties.                                                             *)

\* A record has one set of flags, and is registered only when it is verified.
TypeOK == \A h \in Hosts :
  /\ \A r \in mdns[h].my : /\ Of(mdns[h].my, r) = {r}
                           /\ "claimed" \in r.flags => "probed" \in r.flags
                           /\ ~({"probing", "probed"} \subseteq r.flags)
  /\ mdns[h].out = {}

\* A record that is being probed has a cookie with a timer that will go on,
\* whatever tie-breaks, conflicts and new names there were.
ProbingHasCookie == \A h \in Hosts : \A r \in mdns[h].my :
  "probing" \in r.flags =>
    \E c \in mdns[h].cookies : c.kind = "probe" /\ c.timer /\ Rec(r) \in c.recs

\* No two hosts have verified the same unique record: the later one in the
\* tie-break, or the one that was there, keeps it.
UniqueOnLink == \A g, h \in Hosts : g # h =>
  \A r \in mdns[g].my, s \in mdns[h].my :
    ~(Rec(r) = Rec(s) /\ "probed" \in r.flags /\ "probed" \in s.flags)
=============================================================================
