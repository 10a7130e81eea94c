---------------------------- MODULE HealDispatch ----------------------------
(***************************************************************************)
(* The self-heal loop: the hotel's heal queue (SQLite rows pushed by the   *)
(* hotel and its guests), the hourly vacuum, the heal-dispatcher guest     *)
(* that polls the queue, triages, acts and resolves row by row over IPC,   *)
(* its in-memory recurrence tracker, and the hotel's handler that files    *)
(* one open work item per recurring pattern.                               *)
(*                                                                         *)
(* A pattern stands for a (pattern_tag, guest_id) pair.  Every request of  *)
(* the dispatcher may time out or lose its connection: the hotel may still *)
(* serve it, at any later time, while a new connection is already at work. *)
(* Time is relative: the age of a row and of a recorded occurrence.        *)
(***************************************************************************)
EXTENDS Integers, Sequences, FiniteSetsExt

CONSTANTS
  Patterns,   \* recurring failure patterns
  Notice,     \* the (autonomy_outcome_pending, fleet.heal_slices) pattern
  Remedied,   \* patterns whose heal action is a request to the hotel
  Flood,      \* HEAL_FLOOD_WINDOW_SECS
  Window,     \* RecurrenceTracker.window_secs
  Ceiling,    \* abandon ceiling of the vacuum
  Retention,  \* age at which the vacuum deletes terminal rows
  Threshold,  \* RecurrenceTracker.threshold
  BatchLimit, \* BATCH_LIMIT
  Budget,     \* max_actions_per_day of the fleet.heal_slices lane
  MaxRows,    \* rows the environment may push
  MaxItems,   \* work items that may be filed
  Faults,     \* kinds of faults that may happen
  MaxFaults   \* how many of them

ASSUME HealAssumption ==
  /\ Notice \notin Patterns
  /\ Remedied \subseteq Patterns
  /\ Flood \in Nat /\ Window \in Nat
  /\ Ceiling \in Nat /\ Retention \in Nat
  /\ Flood <= Retention /\ Ceiling <= Retention
  /\ Threshold \in Nat \ {0}
  /\ BatchLimit \in Nat \ {0}
  /\ Budget \in Nat
  /\ MaxRows \in Nat
  /\ MaxItems \in Nat
  /\ MaxFaults \in Nat

VARIABLES
  rows,     \* table heal_queue, oldest first; a deleted row keeps its index
  vac,      \* the vacuum task is between its two statements
  items,    \* heal_work_item nodes
  audits,   \* autonomy_audit records of filings
  spent,    \* actions_today of the lane's grant
  pc,       \* where the dispatcher stands
  batch,    \* rows of the cycle not finished yet, the current one first
  call,     \* the filing being served for the dispatcher
  events,   \* RecurrenceTracker.events: ages of the occurrences
  late,     \* requests the dispatcher gave up and the hotel may still serve
  faults    \* faults so far

storeVars == <<rows, vac>>
filingVars == <<items, audits, spent>>
dispVars == <<pc, batch, call, events>>
vars == <<storeVars, filingVars, dispVars, late, faults>>

AllPatterns == Patterns \cup {Notice}

\* acted and refused are history: how often the heal action of the row ran,
\* and how often the store refused its triage.
NewRow(kind, p) ==
  [kind |-> kind, pat |-> p, status |-> "pending", age |-> 0,
   tagged |-> kind \in {"event", "notice"}, acted |-> 0, refused |-> 0]

\* A filing that the hotel has not looked at yet.
NoCall == [pat |-> Notice, count |-> 0, found |-> 0, seen |-> 0]

Init ==
  /\ rows = <<>>
  /\ vac = FALSE
  /\ items = <<>>
  /\ audits = 0
  /\ spent = 0
  /\ pc = "down"
  /\ batch = <<>>
  /\ call = NoCall
  /\ events = [p \in AllPatterns |-> <<>>]
  /\ late = {}
  /\ faults = 0

\* One more fault of kind f.
Fault(f) ==
  /\ f \in Faults
  /\ faults < MaxFaults
  /\ faults' = faults + 1

-----------------------------------------------------------------------------
(***************************************************************************)
(* The heal queue                                                          *)
(***************************************************************************)

\* push_error collapses a line into a row of the guest with the same text key.
FloodsError(table, p) ==
  \E i \in DOMAIN table : /\ table[i].kind = "raw" /\ table[i].pat = p
                          /\ table[i].status # "deleted" /\ table[i].age <= Flood

\* push_classified collapses an event into any row of the guest with its tag,
\* whatever its status.
FloodsEvent(table, p) ==
  \E i \in DOMAIN table : /\ table[i].tagged /\ table[i].pat = p
                          /\ table[i].status # "deleted" /\ table[i].age <= Flood

\* A guest's stderr line.
PushError(p) ==
  /\ Len(rows) < MaxRows
  /\ ~ FloodsError(rows, p)
  /\ rows' = Append(rows, NewRow("raw", p))
  /\ UNCHANGED <<vac, filingVars, dispVars, late, faults>>

\* A failure the hotel or a guest has classified.
PushEvent(p) ==
  /\ Len(rows) < MaxRows
  /\ ~ FloodsEvent(rows, p)
  /\ rows' = Append(rows, NewRow("event", p))
  /\ UNCHANGED <<vac, filingVars, dispVars, late, faults>>

\* The first rows of ids, oldest first, BatchLimit of them at most.
Oldest(ids) ==
  {q \in UNION {[1..n -> ids] : n \in 0..BatchLimit} :
     /\ \A j, k \in DOMAIN q : j < k => q[j] < q[k]
     /\ \A i \in ids : \/ \E k \in DOMAIN q : q[k] = i
                       \/ Len(q) = BatchLimit /\ \A k \in DOMAIN q : q[k] < i}

\* Mutant: rows still being worked on are delivered again.
PendingErrorsOrAssigned ==
  Oldest({i \in DOMAIN rows : rows[i].status \in {"pending", "assigned"}})

\* pending_errors: the oldest pending rows, in the one order there is.
PendingErrors == Oldest({i \in DOMAIN rows : rows[i].status = "pending"})

\* update_triage and resolve: UPDATE ... WHERE id, whatever the status.
UpdateTriage(table, i) ==
  IF table[i].status = "deleted" THEN table
  ELSE [table EXCEPT ![i].status = "assigned", ![i].tagged = TRUE]

ResolveRow(table, i) ==
  IF table[i].status = "deleted" THEN table
  ELSE [table EXCEPT ![i].status = "resolved"]

\* Mutant: only rows never picked up are abandoned.
OverdueIfPending(r) == r.status = "pending" /\ r.age > Ceiling

Overdue(r) == r.status \in {"pending", "assigned"} /\ r.age > Ceiling

\* vacuum_abandoned, the first statement of the hourly task; it may fail.
VacuumAbandoned ==
  /\ ~ vac
  /\ vac' = TRUE
  /\ \/ /\ rows' = [i \in DOMAIN rows |->
                      IF Overdue(rows[i]) THEN [rows[i] EXCEPT !.status = "abandoned"]
                      ELSE rows[i]]
        /\ UNCHANGED faults
     \/ Fault("store") /\ UNCHANGED rows
  /\ UNCHANGED <<filingVars, dispVars, late>>

\* vacuum_old, the second one.
VacuumOld ==
  /\ vac
  /\ vac' = FALSE
  /\ \/ /\ rows' = [i \in DOMAIN rows |->
                      IF rows[i].status \in {"resolved", "abandoned"} /\ rows[i].age > Retention
                        THEN [rows[i] EXCEPT !.status = "deleted", !.tagged = FALSE]
                        ELSE rows[i]]
        /\ UNCHANGED faults
     \/ Fault("store") /\ UNCHANGED rows
  /\ UNCHANGED <<filingVars, dispVars, late>>

-----------------------------------------------------------------------------
(***************************************************************************)
(* Filing a work item                                                      *)
(***************************************************************************)

\* find_open_heal_work_item: 0 when the pattern has no open item.
OpenItem(p) ==
  LET open == {k \in DOMAIN items : items[k].open /\ items[k].pat = p}
  IN  IF open = {} THEN 0 ELSE CHOOSE k \in open : \A j \in open : k <= j

\* The dedup lookup of handle_file_heal_work_item.
LookedUp(q) ==
  LET k == OpenItem(q.pat)
  IN  [q EXCEPT !.found = k, !.seen = IF k = 0 THEN 0 ELSE items[k].count]

\* The info row of a filing: pushed, triaged and resolved, each in a statement
\* of its own that may fail alone.
InfoRow(p, status, tagged) ==
  <<[NewRow("filed", p) EXCEPT !.status = status, !.tagged = tagged]>>

InfoDone(p) == InfoRow(p, "resolved", TRUE)

InfoHalfDone(p) ==
  {<<>>, InfoRow(p, "pending", FALSE), InfoRow(p, "assigned", TRUE), InfoRow(p, "resolved", FALSE)}

\* The pending-outcome notice, under the flood window of its pattern.
WithNotice(table) ==
  IF FloodsEvent(table, Notice) THEN table ELSE Append(table, NewRow("notice", Notice))

\* The queue after a filing: both rows, or with a failed statement.
FiledRows(p) == {WithNotice(rows \o InfoDone(p))}

FiledRowsHalfDone(p) ==
  {WithNotice(rows \o info) : info \in InfoHalfDone(p)} \cup {rows \o InfoDone(p)}

\* The rest of the handler: bump the item that was found, at the count read
\* by the lookup, ...
Bump(q) ==
  /\ q.found # 0
  /\ items' = [items EXCEPT ![q.found] =
                 [pat |-> q.pat, count |-> q.seen + q.count, open |-> TRUE]]
  /\ UNCHANGED <<audits, spent, rows>>

\* ... or consume the budget, record the audit, file the item and push the
\* two rows.
File(q, tables) ==
  /\ q.found = 0
  /\ spent < Budget
  /\ Len(items) < MaxItems
  /\ spent' = spent + 1
  /\ audits' = audits + 1
  /\ items' = Append(items, [pat |-> q.pat, count |-> q.count, open |-> TRUE])
  /\ rows' \in tables

\* The lane is switched off, frozen or out of budget, or the bump fails.
FileRefused(q) == UNCHANGED <<items, audits, spent, rows>>

\* A write of the handler fails: after the grant, or after the audit record.
FileFails(q) ==
  /\ q.found = 0
  /\ spent < Budget
  /\ spent' = spent + 1
  /\ audits' \in {audits, audits + 1}
  /\ UNCHANGED <<items, rows>>

\* What the hotel does with a filing whose lookup is done.
FileServed(q) ==
  \/ Bump(q) /\ UNCHANGED faults
  \/ File(q, FiledRows(q.pat)) /\ UNCHANGED faults
  \/ File(q, FiledRowsHalfDone(q.pat)) /\ Fault("store")
  \/ FileRefused(q) /\ UNCHANGED faults
  \/ FileFails(q) /\ Fault("store")

\* CloseHealWorkItem, the operator's reversal.
CloseHealWorkItem(k) ==
  /\ k \in DOMAIN items
  /\ items[k].open
  /\ items' = [items EXCEPT ![k].open = FALSE]
  /\ UNCHANGED <<audits, spent, storeVars, dispVars, late, faults>>

\* try_consume_daily_action rolls the counter over on a new day.
NewDay ==
  /\ spent > 0
  /\ spent' = 0
  /\ UNCHANGED <<items, audits, storeVars, dispVars, late, faults>>

-----------------------------------------------------------------------------
(***************************************************************************)
(* The dispatcher                                                          *)
(***************************************************************************)

Row == Head(batch)

\* The cycle goes on with the next row, or ends.
NextRow ==
  /\ batch' = Tail(batch)
  /\ pc' = IF Tail(batch) = <<>> THEN "idle" ELSE "triage"

Reconnect ==
  /\ pc = "down"
  /\ pc' = "idle"
  /\ UNCHANGED <<storeVars, filingVars, batch, call, events, late, faults>>

\* dispatch_cycle reads its batch.
Poll ==
  /\ pc = "idle"
  /\ \E q \in PendingErrors : q # <<>> /\ batch' = q
  /\ pc' = "triage"
  /\ UNCHANGED <<storeVars, filingVars, call, events, late, faults>>

\* The occurrences from the first one inside the window on, with the one
\* recorded now.
Recorded(p) ==
  LET q == events[p]
      first == Min({j \in DOMAIN q : q[j] <= Window} \cup {Len(q) + 1})
  IN  Append(SubSeq(q, first, Len(q)), 0)

\* Mutant: a breach leaves the window as it is.
RecordKeepsWindow(i) ==
  LET p == rows[i].pat
      breach == Len(Recorded(p)) >= Threshold
  IN  /\ events' = [events EXCEPT ![p] = Recorded(p)]
      /\ call' = IF breach THEN [NoCall EXCEPT !.pat = p, !.count = Len(Recorded(p))]
                 ELSE NoCall
      /\ pc' = IF breach THEN "file" ELSE "act"

\* RecurrenceTracker::record; the hotel's own work_item_filed rows are not
\* recorded.
Record(i) ==
  IF rows[i].kind = "filed"
    THEN pc' = "act" /\ UNCHANGED <<events, call>>
    ELSE LET p == rows[i].pat
             breach == Len(Recorded(p)) >= Threshold
         IN  /\ events' = [events EXCEPT ![p] = IF breach THEN <<>> ELSE Recorded(p)]
             /\ call' = IF breach THEN [NoCall EXCEPT !.pat = p, !.count = Len(Recorded(p))]
                        ELSE NoCall
             /\ pc' = IF breach THEN "file" ELSE "act"

\* Triage is written back and the occurrence recorded.  A refusal of the
\* store is a reply like any other.
Triage ==
  /\ pc = "triage"
  /\ \/ rows' = UpdateTriage(rows, Row) /\ UNCHANGED faults
     \/ rows' = [rows EXCEPT ![Row].refused = @ + 1] /\ Fault("store")
  /\ Record(Row)
  /\ UNCHANGED <<vac, filingVars, batch, late>>

\* The reply cannot be read: the row is skipped, triaged or not.
TriageSkips ==
  /\ pc = "triage"
  /\ Fault("reply")
  /\ rows' \in {rows, UpdateTriage(rows, Row)}
  /\ NextRow
  /\ UNCHANGED <<vac, filingVars, call, events, late>>

\* handle_file_heal_work_item, first half: the lookup.
FileLookup ==
  /\ pc = "file"
  /\ call' = LookedUp(call)
  /\ pc' = "filing"
  /\ UNCHANGED <<storeVars, filingVars, batch, events, late, faults>>

\* Second half, and its reply, which never stops the row.
FileReply ==
  /\ pc = "filing"
  /\ FileServed(call)
  /\ call' = NoCall
  /\ pc' = "act"
  /\ UNCHANGED <<vac, batch, events, late>>

\* execute_action.
ExecuteAction ==
  /\ pc = "act"
  /\ rows' = [rows EXCEPT ![Row].acted = @ + 1]
  /\ pc' = "resolve"
  /\ UNCHANGED <<vac, filingVars, batch, call, events, late, faults>>

\* The outcome is written back; a refusal is a reply like any other.
Resolve ==
  /\ pc = "resolve"
  /\ \/ rows' = ResolveRow(rows, Row) /\ UNCHANGED faults
     \/ Fault("store") /\ UNCHANGED rows
  /\ NextRow
  /\ UNCHANGED <<vac, filingVars, call, events, late>>

\* The request the dispatcher waits for.
Asked ==
  CASE pc \in {"triage", "resolve"} -> {[op |-> pc, row |-> Row, call |-> NoCall]}
    [] pc \in {"file", "filing"} -> {[op |-> pc, row |-> Row, call |-> call]}
    [] pc = "act" /\ rows[Row].pat \in Remedied ->
         {[op |-> "act", row |-> Row, call |-> NoCall]}
    [] OTHER -> {}

\* A timeout or a broken connection ends the cycle and the batch; a crash of
\* the dispatcher also loses its tracker.
CutOff(crash) ==
  /\ pc # "down"
  /\ crash \/ Asked # {} \/ pc = "idle"
  /\ Fault(IF crash THEN "crash" ELSE "cut")
  /\ pc' = "down"
  /\ batch' = <<>>
  /\ call' = NoCall
  /\ late' = late \cup {[q EXCEPT !.op = <<@, faults>>] : q \in Asked}
  /\ events' = IF crash THEN [p \in AllPatterns |-> <<>>] ELSE events
  /\ UNCHANGED <<storeVars, filingVars>>

\* The hotel serves a request its dispatcher has given up.
ServeLate(q) ==
  /\ q \in late
  /\ LET op == q.op[1] IN
     \/ /\ op = "triage"
        /\ rows' = UpdateTriage(rows, q.row)
        /\ late' = late \ {q}
        /\ UNCHANGED <<filingVars, faults>>
     \/ /\ op = "resolve"
        /\ rows' = ResolveRow(rows, q.row)
        /\ late' = late \ {q}
        /\ UNCHANGED <<filingVars, faults>>
     \/ /\ op = "act"
        /\ rows' = [rows EXCEPT ![q.row].acted = @ + 1]
        /\ late' = late \ {q}
        /\ UNCHANGED <<filingVars, faults>>
     \/ /\ op = "file"
        /\ late' = (late \ {q}) \cup
                   {[q EXCEPT !.op[1] = "filing", !.call = LookedUp(q.call)]}
        /\ UNCHANGED <<rows, filingVars, faults>>
     \/ /\ op = "filing"
        /\ FileServed(q.call)
        /\ late' = late \ {q}
  /\ UNCHANGED <<vac, dispVars>>

\* A request never reaches the hotel, or dies with it.
DropLate(q) ==
  /\ q \in late
  /\ late' = late \ {q}
  /\ UNCHANGED <<storeVars, filingVars, dispVars, faults>>

\* Time passes.  Ages stop growing where nothing can tell them apart.
Older(a, bound) == IF a > bound THEN a ELSE a + 1

Tick ==
  /\ rows' = [i \in DOMAIN rows |-> [rows[i] EXCEPT !.age = Older(@, Retention)]]
  /\ events' = [p \in AllPatterns |->
                  [k \in DOMAIN events[p] |-> Older(events[p][k], Window)]]
  /\ <<rows', events'>> # <<rows, events>>
  /\ UNCHANGED <<vac, filingVars, pc, batch, call, late, faults>>

-----------------------------------------------------------------------------

Dispatcher ==
  \/ Reconnect \/ Poll \/ Triage \/ FileLookup \/ FileReply
  \/ ExecuteAction \/ Resolve

Next ==
  \/ \E p \in Patterns : PushError(p) \/ PushEvent(p)
  \/ VacuumAbandoned
  \/ VacuumOld
  \/ Dispatcher
  \/ TriageSkips
  \/ \E crash \in BOOLEAN : CutOff(crash)
  \/ \E q \in late : ServeLate(q) \/ DropLate(q)
  \/ \E k \in DOMAIN items : CloseHealWorkItem(k)
  \/ NewDay
  \/ Tick

Spec == Init /\ [][Next]_vars

\* The dispatcher's loop, the clock and the vacuum task keep running.
FairSpec ==
  /\ Spec
  /\ WF_vars(Dispatcher)
  /\ WF_vars(Tick)
  /\ WF_vars(VacuumAbandoned)
  /\ WF_vars(VacuumOld)

-----------------------------------------------------------------------------
(***************************************************************************)
(* Properties                                                              *)
(***************************************************************************)

Statuses == {"pending", "assigned", "resolved", "abandoned", "deleted"}

CallOK(c) ==
  /\ c.pat \in AllPatterns
  /\ c.count \in Nat
  /\ c.found \in 0..Len(items)
  /\ c.seen \in Nat

\* Rows, work items and the dispatcher's state have their types; a batch and
\* a request name rows that exist, and a batch is empty exactly between cycles
\* (dispatch_cycle).
TypeOK ==
  /\ \A i \in DOMAIN rows :
       /\ rows[i].kind \in {"raw", "event", "filed", "notice"}
       /\ rows[i].pat \in AllPatterns
       /\ rows[i].status \in Statuses
       /\ rows[i].age \in 0..(Retention + 1)
       /\ rows[i].tagged \in BOOLEAN
       /\ rows[i].acted \in Nat /\ rows[i].refused \in Nat
  /\ vac \in BOOLEAN
  /\ \A k \in DOMAIN items : /\ items[k].pat \in AllPatterns
                             /\ items[k].count \in Nat
                             /\ items[k].open \in BOOLEAN
  /\ audits \in Nat
  /\ spent \in 0..Budget
  /\ pc \in {"down", "idle", "triage", "file", "filing", "act", "resolve"}
  /\ batch \in Seq(DOMAIN rows)
  /\ (batch = <<>>) <=> (pc \in {"down", "idle"})
  /\ CallOK(call)
  /\ \A p \in AllPatterns : events[p] \in Seq(0..(Window + 1)) /\ Len(events[p]) < Threshold
  /\ \A q \in late : q.row \in DOMAIN rows /\ CallOK(q.call)
  /\ faults \in 0..MaxFaults

\* However requests time out, arrive late or are refused, the heal action of
\* a row (process_row, execute_action) runs again only for a triage the store
\* refused: TriageHealEntry takes the row out of pending_errors before the
\* action runs.
RepeatNeedsRefusal ==
  \A i \in DOMAIN rows : rows[i].acted <= 1 + rows[i].refused

\* The sum of a function's values: how many pairs there are of an argument and
\* a unit of its value.
Total(f) == Cardinality(UNION {{x} \X (1..f[x]) : x \in DOMAIN f})

\* Occurrences of p that are filed, ...
Filed(p) ==
  Total([k \in {k \in DOMAIN items : items[k].pat = p} |-> items[k].count])

\* ... named by requests that were given up, ...
Astray(p) ==
  Total([q \in {q \in late : q.call.pat = p} |-> q.call.count])

\* ... about to be filed or waiting in the window.
Waiting(p) == (IF call.pat = p THEN call.count ELSE 0) + Len(events[p])

\* The failures pushed for p, once more for each refused triage.
Pushed(p) ==
  Total([i \in {i \in DOMAIN rows : rows[i].pat = p /\ rows[i].kind # "filed"} |->
           1 + rows[i].refused])

\* The evidence of a work item is real: what the tracker and the items count
\* for a pattern never exceeds the failures pushed for it (once more for each
\* refused triage), so an occurrence is never filed twice and a filing never
\* feeds its own pattern; and every item has the audit record that
\* handle_file_heal_work_item writes before it.
WorkItemsAreBacked ==
  /\ \A p \in AllPatterns : Filed(p) + Astray(p) + Waiting(p) <= Pushed(p)
  /\ Len(items) <= audits

Settled(i) == i \in DOMAIN rows /\ rows[i].status \in {"resolved", "abandoned", "deleted"}

\* Every row is settled in the end, whatever stalls, crashes or is lost: the
\* abandon vacuum picks up what the dispatcher left behind, rows it triaged
\* and never resolved included.
Settles ==
  \A i \in 1..(MaxRows + 2 * MaxItems) : (i \in DOMAIN rows) ~> Settled(i)

\* heal-dispatcher main.rs says of a cycle cut short that "the in-flight row's
\* Resolve may not have landed, so it is reprocessed next cycle": when the
\* dispatcher is about to poll and nothing is under way, every unsettled row
\* is pending.
InFlightIsReprocessed ==
  pc = "idle" /\ late = {} => \A i \in DOMAIN rows : rows[i].status # "assigned"

\* heal_queue.rs says of resolved and abandoned rows that "both are terminal":
\* such a row changes only by being deleted.
TerminalStays ==
  [][\A i \in DOMAIN rows :
       rows[i].status \in {"resolved", "abandoned"}
         => rows'[i].status \in {rows[i].status, "deleted"}]_vars

\* heal_queue.rs states the dedup invariant "at most one **open** work item
\* per (pattern_tag, guest_id)".
OneOpenItem ==
  \A j, k \in DOMAIN items :
    items[j].open /\ items[k].open /\ items[j].pat = items[k].pat => j = k

\* ipc.rs pushes "an UNRESOLVED, throttled pending-outcome notice" as a
\* "still awaiting review" breadcrumb: nobody resolves it behind the
\* operator's back.
NoticeAwaitsReview ==
  \A i \in DOMAIN rows : rows[i].kind = "notice" => rows[i].status # "resolved"

=============================================================================
