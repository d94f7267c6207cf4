------------------------------ MODULE Identity ------------------------------
(***************************************************************************)
(* Who a message belongs to: WhatsApp addresses a person by a hidden id    *)
(* (LID) or by the phone number, the daemon keeps one chat per person under*)
(* the phone number (canonicalJID, client.go), and a repair run of the     *)
(* daemon (WAD_MIGRATE_LIDS, WAD_RESYNC; main.go) moves what was stored    *)
(* under a LID before its number was known (MigrateLIDs, history.go).      *)
(*                                                                         *)
(* canonicalJID asks three sources: whatsmeow's table through a cache of   *)
(* hits and of misses (lidmap.go), whatsmeow's memory, and what the daemon *)
(* has learnt itself.  The message handlers and the repair run ask at the  *)
(* same time: the daemon is connected while it repairs.                    *)
(*                                                                         *)
(* A person is its LID; its two addresses are the forms "lid" and "pn".    *)
(* A message is its author's LID and its timestamp.                        *)
(***************************************************************************)
EXTENDS Naturals, FiniteSets, FiniteSetsExt

CONSTANTS
  Lids,         \* the people
  Handlers,     \* goroutines that handle messages: WhatsApp's events, a history sync
  MaxTime,      \* bound: messages of a person
  MaxArrivals,  \* bound: messages handled, redeliveries included
  MaxFails,     \* bound: queries that fail, the database being locked
  MaxRestarts,  \* bound: stops of the daemon
  BatchSize,    \* contacts asked about in one query (lidBatchSize)
  MaxRetries    \* retries of a throttled query (lidMaxRetries)

ASSUME HandlersAssumption == "repair" \notin Handlers
ASSUME BoundsAssumption ==
  {MaxTime, MaxArrivals, MaxFails, MaxRestarts, MaxRetries} \subseteq Nat
ASSUME BatchAssumption == BatchSize \in Nat \ {0}

Forms == {"lid", "pn"}
Msgs == Lids \X (1..MaxTime)
Actors == Handlers \cup {"repair"}
Idle == [at |-> "idle"]
Stages == {"look", "query", "fill", "others", "found", "row", "summary"}
Misses == {"none", "absent", "failed"}

\* A message or, with time 0, a chat under way: whose it is, the address it
\* came with and whether that names a device, the form its chat has so far, the
\* result of a query, and whether the maps it is for have been replaced.
Jobs == [at : Stages, lid : Lids, time : 0..MaxTime, addr : Forms, device : BOOLEAN,
         form : Forms, val : {"", "pn", "absent", "failed"}, old : BOOLEAN]

VARIABLES
  pairs,     \* whatsmeow_lid_map: the LIDs whose number the table has
  active,    \* the LIDs whose number whatsmeow's memory has
  learned,   \* lid_identity: the LIDs whose number the daemon has seen
  hit,       \* sessionStore.lidToPN
  miss,      \* sessionStore.lidMiss while it is trusted, and why it is there
  rows,      \* the messages table: a message and the chat it is under
  last,      \* chats.last_ts of a person's two chats, 0 without a chat
  job,       \* what each actor is in the middle of
  phase,     \* what the daemon was started for, or where the repair is
  todo,      \* the LIDs the repair has still to ask about, or to move
  tries,     \* throttled attempts of the present query
  handled,   \* messages whose handler has returned
  arrivals, fails, restarts

sources == <<pairs, active, learned>>
cache == <<hit, miss>>
tables == <<rows, last>>
repair == <<phase, todo, tries>>
bounds == <<arrivals, fails, restarts>>
vars == <<sources, cache, tables, job, repair, handled, bounds>>

At(a, stage) == job[a].at = stage
Becomes(a, j) == job' = [job EXCEPT ![a] = j]
Listed(l, f) == last[l][f] > 0

TypeOK ==
  /\ pairs \subseteq Lids /\ active \subseteq Lids /\ learned \subseteq Lids
  /\ hit \subseteq Lids
  /\ miss \in [Lids -> Misses]
  /\ rows \subseteq Msgs \X Forms
  /\ last \in [Lids -> [Forms -> 0..MaxTime]]
  /\ job \in [Actors -> {Idle} \cup Jobs]
  /\ phase \in {"serve", "resync", "targets", "ask", "list", "move", "names"}
  /\ todo \subseteq Lids /\ tries \in 0..MaxRetries
  /\ handled \subseteq Msgs
  /\ arrivals \in 0..MaxArrivals /\ fails \in 0..MaxFails /\ restarts \in 0..MaxRestarts

\* The daemon is started: to serve the phone, or to repair with or without
\* asking WhatsApp first.  The tables are what earlier runs have left.
Init ==
  /\ pairs \in SUBSET Lids
  /\ active = {} /\ learned = {}
  /\ hit = {} /\ miss = [l \in Lids |-> "none"]
  /\ rows = {} /\ last = [l \in Lids |-> [f \in Forms |-> 0]]
  /\ job = [a \in Actors |-> Idle]
  /\ phase = "serve" /\ todo = {} /\ tries = 0
  /\ handled = {}
  /\ arrivals = 0 /\ fails = 0 /\ restarts = 0

-----------------------------------------------------------------------------
(* canonicalJID of a LID.                                                  *)

\* A lookup of actor a goes on, or ends with the form it has found.
Goes(a, stage) == Becomes(a, [job[a] EXCEPT !.at = stage, !.val = "", !.old = FALSE])
Finds(a, f) ==
  Becomes(a, [job[a] EXCEPT !.at = "found", !.val = "", !.old = FALSE, !.form = f])

BugOthers == learned

\* Where canonicalJID looks when the table has nothing.
Others == active \cup learned

\* What canonicalJID answers when it is called now and no query fails.
Canon(l) ==
  IF l \in hit \cup Others \/ (l \in pairs /\ miss[l] = "none") THEN "pn" ELSE "lid"

BugLook(a) ==
  /\ At(a, "look")
  /\ IF job[a].lid \in hit THEN Finds(a, "pn") ELSE Goes(a, "others")
  /\ UNCHANGED <<sources, cache, tables, repair, handled, bounds>>

\* The cached answer, a miss that is still trusted, or neither.
Look(a) ==
  /\ At(a, "look")
  /\ LET l == job[a].lid IN
     \/ l \in hit /\ Finds(a, "pn")
     \/ l \notin hit /\ miss[l] # "none" /\ Goes(a, "others")
     \/ l \notin hit /\ miss[l] = "none" /\ Goes(a, "query")
  /\ UNCHANGED <<sources, cache, tables, repair, handled, bounds>>

\* The query, without the lock: a row, no row, or a database that is locked.
Query(a) ==
  /\ At(a, "query")
  /\ \/ Becomes(a, [job[a] EXCEPT !.at = "fill",
                    !.val = IF job[a].lid \in pairs THEN "pn" ELSE "absent"])
        /\ UNCHANGED fails
     \/ /\ fails < MaxFails /\ fails' = fails + 1
        /\ Becomes(a, [job[a] EXCEPT !.at = "fill", !.val = "failed"])
  /\ UNCHANGED <<sources, cache, tables, repair, handled, arrivals, restarts>>

\* What a lookup leaves in the maps: a hit replaces a miss.
Cached(l, val) ==
  /\ hit' = IF val = "pn" THEN hit \cup {l} ELSE hit
  /\ miss' = [miss EXCEPT ![l] = IF val = "pn" THEN "none" ELSE val]

\* The answer is written into the maps the lookup was called with: after a
\* reset they are the old ones, which nobody reads any more.
Fill(a) ==
  /\ At(a, "fill")
  /\ IF job[a].old THEN UNCHANGED cache ELSE Cached(job[a].lid, job[a].val)
  /\ IF job[a].val = "pn" THEN Finds(a, "pn") ELSE Goes(a, "others")
  /\ UNCHANGED <<sources, tables, repair, handled, bounds>>

AskOthers(a) ==
  /\ At(a, "others")
  /\ Finds(a, IF job[a].lid \in Others THEN "pn" ELSE "lid")
  /\ UNCHANGED <<sources, cache, tables, repair, handled, bounds>>

\* missTTL passes.
MissExpires(l) ==
  /\ miss[l] # "none"
  /\ miss' = [miss EXCEPT ![l] = "none"]
  /\ UNCHANGED <<sources, hit, tables, job, repair, handled, bounds>>

\* reset replaces the maps; a lookup under way keeps the ones it was given.
Reset ==
  /\ hit' = {} /\ miss' = [l \in Lids |-> "none"]
  /\ job' = [a \in Actors |-> IF At(a, "query") \/ At(a, "fill")
                              THEN [job[a] EXCEPT !.old = TRUE] ELSE job[a]]

-----------------------------------------------------------------------------
(* handleMsg of a message in a chat with one person.                       *)

\* A message addressed to a LID or to a number, sent from the person's phone
\* or from a companion device: the LID of the latter names the device too.
Arrives(h, m, f, companion) ==
  /\ At(h, "idle")
  /\ arrivals < MaxArrivals /\ arrivals' = arrivals + 1
  /\ Becomes(h, [at |-> IF f = "lid" THEN "look" ELSE "found", lid |-> m[1], time |-> m[2],
                 addr |-> f, device |-> companion, form |-> f, val |-> "", old |-> FALSE])
  /\ UNCHANGED <<sources, cache, tables, repair, handled, fails, restarts>>

\* The sender of a message that names a LID is looked up once more, and
\* learnLID keeps the number under the sender's raw address, which resolvePN
\* finds only if it names no device.
LearnsNumber(h, l) ==
  /\ learned' = IF ~job[h].device /\ Canon(l) = "pn" THEN learned \cup {l} ELSE learned
  /\ IF l \in hit \/ miss[l] # "none" THEN UNCHANGED cache
     ELSE Cached(l, IF l \in pairs THEN "pn" ELSE "absent")

\* The name behind a number is looked for under the person's LID too, unless
\* that LID was missed lately; the pair that is found is cached both ways.
FindsPair(l) ==
  /\ \/ l \in pairs /\ Cached(l, "pn")
     \/ UNCHANGED cache
  /\ UNCHANGED learned

Learns(h) ==
  /\ h \in Handlers /\ At(h, "found")
  /\ IF job[h].addr = "lid" THEN LearnsNumber(h, job[h].lid) ELSE FindsPair(job[h].lid)
  /\ Goes(h, "row")
  /\ UNCHANGED <<pairs, active, tables, repair, handled, bounds>>

Msg(h) == <<job[h].lid, job[h].time>>

\* putMessage: the row, and then the summary of the chat it was meant for.
PutRow(h) ==
  /\ At(h, "row")
  /\ rows' = rows \cup {<<Msg(h), job[h].form>>}
  /\ Goes(h, "summary")
  /\ UNCHANGED <<sources, cache, last, repair, handled, bounds>>

PutSummary(h) ==
  /\ At(h, "summary")
  /\ last' = [last EXCEPT ![job[h].lid][job[h].form] = Max({@, job[h].time})]
  /\ handled' = handled \cup {Msg(h)}
  /\ Becomes(h, Idle)
  /\ UNCHANGED <<sources, cache, rows, repair, bounds>>

-----------------------------------------------------------------------------
(* whatsmeow.                                                              *)

\* Traffic makes whatsmeow know a number, which it then writes to its table.
Activates(l) ==
  /\ l \notin active
  /\ active' = active \cup {l}
  /\ UNCHANGED <<pairs, learned, cache, tables, job, repair, handled, bounds>>

StoresPair(l) ==
  /\ l \in active \ pairs
  /\ pairs' = pairs \cup {l}
  /\ UNCHANGED <<active, learned, cache, tables, job, repair, handled, bounds>>

-----------------------------------------------------------------------------
(* The repair run.                                                         *)

\* The daemon stops, or is killed, and is started again; what it had in
\* memory is lost, the handlers' half-done work with it.
Restart(p) ==
  /\ restarts < MaxRestarts /\ restarts' = restarts + 1
  /\ phase' = p /\ p \in {"serve", "resync", "list"}
  /\ active' = {} /\ hit' = {} /\ miss' = [l \in Lids |-> "none"]
  /\ job' = [a \in Actors |-> Idle]
  /\ todo' = {} /\ tries' = 0
  /\ UNCHANGED <<pairs, learned, tables, handled, arrivals, fails>>

\* ResyncContacts: the contact list comes again and the caches are dropped,
\* or it does not come and the repair goes on with what there is.
ResyncContacts ==
  /\ phase = "resync" /\ phase' = "targets"
  /\ Reset \/ UNCHANGED <<cache, job>>
  /\ UNCHANGED <<sources, tables, todo, tries, handled, bounds>>

\* ResyncLIDMappings asks about the contacts that have no pair; it returns
\* at once when there are none.
Targets ==
  /\ phase = "targets" /\ phase' = IF Lids \subseteq pairs THEN "list" ELSE "ask"
  /\ todo' = Lids \ pairs
  /\ UNCHANGED <<sources, cache, tables, job, tries, handled, bounds>>

\* The next contacts to ask about.
Batches == {b \in SUBSET todo : Cardinality(b) = Min({BatchSize, Cardinality(todo)})}

\* WhatsApp answers for some of a batch, and whatsmeow keeps the answers.
Answered(b, known) ==
  /\ phase = "ask" /\ todo # {} /\ b \in Batches /\ known \subseteq b
  /\ active' = active \cup known /\ pairs' = pairs \cup known
  /\ todo' = todo \ b /\ tries' = 0
  /\ UNCHANGED <<learned, cache, tables, job, phase, handled, bounds>>

\* WhatsApp throttles the query; it is made again after a pause.
Throttled ==
  /\ phase = "ask" /\ todo # {}
  /\ tries < MaxRetries /\ tries' = tries + 1
  /\ UNCHANGED <<sources, cache, tables, job, phase, todo, handled, bounds>>

\* A query that fails otherwise, or once too often, is given up.
GivesUp(b) ==
  /\ phase = "ask" /\ todo # {} /\ b \in Batches
  /\ todo' = todo \ b /\ tries' = 0
  /\ UNCHANGED <<sources, cache, tables, job, phase, handled, bounds>>

AskedAll ==
  /\ phase = "ask" /\ todo = {} /\ phase' = "list"
  /\ Reset
  /\ UNCHANGED <<sources, tables, todo, tries, handled, bounds>>

\* MigrateLIDs reads which chats are under a LID ...
Lists ==
  /\ phase = "list" /\ phase' = "move"
  /\ todo' = {l \in Lids : Listed(l, "lid")}
  /\ UNCHANGED <<sources, cache, tables, job, tries, handled, bounds>>

\* ... and resolves one after the other.
Resolves(l) ==
  /\ phase = "move" /\ At("repair", "idle") /\ l \in todo
  /\ Becomes("repair", [at |-> "look", lid |-> l, time |-> 0, addr |-> "lid", device |-> FALSE,
                      form |-> "lid", val |-> "", old |-> FALSE])
  /\ UNCHANGED <<sources, cache, tables, repair, handled, bounds>>

BugMoved(l) ==
  /\ rows' = {r \in rows : r[1][1] # l \/ r[2] = "pn"}
  /\ last' = [last EXCEPT ![l] = [lid |-> 0, pn |-> Max({@.lid, @.pn})]]

\* The transaction that moves a chat: rows the other chat has already are
\* dropped, and the chat is renamed or merged into the other one.
Moved(l) ==
  /\ rows' = {IF r[1][1] = l THEN <<r[1], "pn">> ELSE r : r \in rows}
  /\ last' = [last EXCEPT ![l] = [lid |-> 0, pn |-> Max({@.lid, @.pn})]]

MigrateLID ==
  /\ At("repair", "found") /\ job["repair"].form = "pn"
  /\ Moved(job["repair"].lid)
  /\ todo' = todo \ {job["repair"].lid}
  /\ Becomes("repair", Idle)
  /\ UNCHANGED <<sources, cache, phase, tries, handled, bounds>>

LeavesUnmapped ==
  /\ At("repair", "found") /\ job["repair"].form = "lid"
  /\ todo' = todo \ {job["repair"].lid}
  /\ Becomes("repair", Idle)
  /\ UNCHANGED <<sources, cache, tables, phase, tries, handled, bounds>>

\* What follows concerns names only, and then the repair ends.
Migrated ==
  /\ phase = "move" /\ todo = {} /\ At("repair", "idle") /\ phase' = "names"
  /\ UNCHANGED <<sources, cache, tables, job, todo, tries, handled, bounds>>

-----------------------------------------------------------------------------
LookupStep(a) == Look(a) \/ Query(a) \/ Fill(a) \/ AskOthers(a)
HandlerStep(h) == Learns(h) \/ PutRow(h) \/ PutSummary(h)

RepairStep ==
  \/ ResyncContacts \/ Targets \/ AskedAll \/ Lists \/ MigrateLID \/ LeavesUnmapped \/ Migrated
  \/ Throttled
  \/ \E b \in Batches : GivesUp(b) \/ \E known \in SUBSET b : Answered(b, known)
  \/ \E l \in Lids : Resolves(l)

Next ==
  \/ \E a \in Actors : LookupStep(a)
  \/ \E h \in Handlers : HandlerStep(h)
  \/ \E h \in Handlers, m \in Msgs, f \in Forms, companion \in BOOLEAN :
       Arrives(h, m, f, companion)
  \/ \E l \in Lids : MissExpires(l) \/ Activates(l) \/ StoresPair(l)
  \/ RepairStep
  \/ \E p \in {"serve", "resync", "list"} : Restart(p)

Fairness ==
  /\ \A a \in Actors : WF_vars(LookupStep(a))
  /\ \A h \in Handlers : WF_vars(HandlerStep(h))
  /\ \A l \in Lids : WF_vars(MissExpires(l))
  /\ WF_vars(RepairStep)

Spec == Init /\ [][Next]_vars /\ Fairness

-----------------------------------------------------------------------------
(* Properties.                                                             *)

\* A number the table has is found by every lookup that starts now, however
\* the caches stand: a miss recorded before the pair was stored is made up for
\* by whatsmeow's memory.  Only a query that failed makes the daemon use the
\* LID of a person whose number is stored (canonicalJID, lookup, reset).
MissIsHarmless == \A l \in pairs : Canon(l) = "lid" => miss[l] = "failed"

\* A message whose handler has returned has a row, under a chat that is
\* listed, also when a repair moves the chat between the two statements of
\* putMessage, or finds the message in both chats.
NothingLost ==
  \A m \in handled : \E f \in Forms : <<m, f>> \in rows /\ Listed(m[1], f)

\* A repair that starts to move chats gets every chat whose number is stored
\* out of its LID, unless the query for it fails or the daemon is stopped.
StoredPairUnites ==
  \A l \in Lids :
    (phase = "list" /\ Listed(l, "lid") /\ l \in pairs)
      ~> (~Listed(l, "lid") \/ miss[l] = "failed" \/ phase \in {"serve", "resync"})

\* A chat that is listed has messages (putMessage, MigrateLIDs).  It has none
\* when a repair moves its rows between the two statements of putMessage: the
\* second one lists the chat anew under the LID.
NoEmptyChat ==
  \A l \in Lids, f \in Forms : Listed(l, f) => \E r \in rows : r[1][1] = l /\ r[2] = f
=============================================================================
