----------------------------- MODULE ThreadList -----------------------------
(***************************************************************************)
(* The list of threads, grouped by the day of their last message           *)
(* (thread-list.tsx).  The groups are computed when the threads change and *)
(* kept till they change again, whatever the clock says.                   *)
(***************************************************************************)
EXTENDS Naturals, Sequences

CONSTANTS
  MaxThreads,
  MaxTime,   \* bound: the clock
  Day,       \* length of a day on the clock
  NoDate

ASSUME ThreadListAssumption ==
  /\ {MaxThreads, MaxTime} \subseteq Nat /\ Day \in Nat \ {0}
  /\ NoDate \notin Nat

VARIABLES
  loading,   \* the list is being read
  threads,   \* time of each thread's last message, or NoDate, in the host's order
  groups,    \* what is shown: <<>> for a list without groups
  clock,
  active     \* the thread that is open, 0 for none of the list

listVars == <<loading, threads, groups, clock, active>>

StartOfToday == clock - (clock % Day)

DateGroupLabel(date, startOfToday) ==
  IF date = NoDate \/ date >= startOfToday THEN "Today"
  ELSE IF date + Day >= startOfToday THEN "Yesterday" ELSE "Earlier"

\* Variant: an unknown date is the earliest.
Time_unknownFirst(date) == IF date = NoDate THEN 0 ELSE date

\* Of an unknown date as if it were later than every other.
Time(date) == IF date = NoDate THEN MaxTime + 1 ELSE date

\* Latest first, in the host's order when dates are the same.
Precedes(dates, i, j) ==
  \/ Time(dates[i]) > Time(dates[j])
  \/ Time(dates[i]) = Time(dates[j]) /\ i < j

Sorted(dates) ==
  CHOOSE order \in [DOMAIN dates -> DOMAIN dates] :
    \A k, l \in DOMAIN dates : k < l => Precedes(dates, order[k], order[l])

Grouped(result, label, i) ==
  IF result # <<>> /\ result[Len(result)].label = label
  THEN [result EXCEPT ![Len(result)].indices = Append(@, i)]
  ELSE Append(result, [label |-> label, indices |-> <<i>>])

\* The groups of the first n threads in order.
Made(dates, order) ==
  LET made[n \in 0..Len(dates)] ==
        IF n = 0 THEN <<>>
        ELSE Grouped(made[n - 1], DateGroupLabel(dates[order[n]], StartOfToday), order[n])
  IN  made

Groups(dates) ==
  IF \A i \in DOMAIN dates : dates[i] = NoDate THEN <<>>
  ELSE Made(dates, Sorted(dates))[Len(dates)]

ListTypeOK ==
  /\ loading \in BOOLEAN /\ clock \in 0..MaxTime
  /\ threads \in Seq(0..clock \cup {NoDate}) /\ Len(threads) <= MaxThreads
  /\ active \in 0..Len(threads)

ListInit == loading = TRUE /\ threads = <<>> /\ groups = <<>> /\ clock = 0 /\ active = 0

Changed(dates) == threads' = dates /\ groups' = Groups(dates) /\ UNCHANGED clock

ListLoaded(dates) == loading /\ loading' = FALSE /\ Changed(dates) /\ UNCHANGED active

\* The thread of a click on New, which gets a date with its first message.
New ==
  /\ ~loading /\ Len(threads) < MaxThreads
  /\ Changed(<<NoDate>> \o threads) /\ active' = 1 /\ UNCHANGED loading

\* A click on an item opens its thread.
SwitchTo(i) ==
  /\ ~loading /\ active # i /\ active' = i
  /\ UNCHANGED <<loading, threads, groups, clock>>

\* A message to the open thread moves no thread: only its date changes.
MessageSent ==
  /\ ~loading /\ active # 0 /\ threads[active] # clock
  /\ Changed([threads EXCEPT ![active] = clock]) /\ UNCHANGED <<loading, active>>

\* Archive and Delete, in the menu of an item.
Gone(i) ==
  /\ ~loading /\ UNCHANGED loading
  /\ Changed(SubSeq(threads, 1, i - 1) \o SubSeq(threads, i + 1, Len(threads)))
  /\ active' = IF active = i THEN 0 ELSE IF active > i THEN active - 1 ELSE active

Tick == clock < MaxTime /\ clock' = clock + 1 /\ UNCHANGED <<loading, threads, groups, active>>

ListNext ==
  \/ \E n \in 0..MaxThreads : \E dates \in [1..n -> 0..clock \cup {NoDate}] : ListLoaded(dates)
  \/ \E i \in DOMAIN threads : SwitchTo(i) \/ Gone(i)
  \/ MessageSent \/ New \/ Tick

(***************************************************************************)
(* Each group is shown under a label of its own, which is its key, and     *)
(* each thread in exactly one place, whatever the dates and the order the  *)
(* host gives and whatever day it has become.                              *)
(***************************************************************************)
Places(gs) == UNION {{g} \X DOMAIN gs[g].indices : g \in DOMAIN gs}

GroupsKeyed ==
  LET at(p) == groups[p[1]].indices[p[2]] IN
  /\ \A g, h \in DOMAIN groups : groups[g].label = groups[h].label => g = h
  /\ \A p, q \in Places(groups) : at(p) = at(q) => p = q
  /\ groups # <<>> => {at(p) : p \in Places(groups)} = DOMAIN threads
=============================================================================
