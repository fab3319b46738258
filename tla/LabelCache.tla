----------------------------- MODULE LabelCache -----------------------------
(***************************************************************************)
(* LabelCache (app/services/label_cache.py): one JSON file that maps an    *)
(* order to its last label, with links from tracking numbers, and one ZPL  *)
(* file per order.  Request threads save, look up and sweep these files    *)
(* without any lock: open(..., 'w') empties a file, the dump fills it      *)
(* again, and what a thread wrote may come to lie over what another one    *)
(* wrote meanwhile.                                                        *)
(*                                                                         *)
(* Labels are numbered in the order they are bought, which is the order    *)
(* they expire in.  An order number and its form with "SO" before it name  *)
(* the same order, and no tracking number looks like either.               *)
(***************************************************************************)
EXTENDS Naturals, FiniteSets

CONSTANTS
  Orders,      \* order numbers
  MaxLabels,   \* bound: labels bought in one behaviour
  MaxSaves,    \* bound: saves at a time
  None,        \* no label, no order, no content
  Mixed        \* content that two threads have written over each other

ASSUME LabelsAssumption ==
  /\ MaxLabels \in Nat
  /\ MaxSaves \in Nat
  /\ None \notin Nat \cup Orders
  /\ Mixed \notin Nat \cup Orders \cup {None}

Labels == 1..MaxLabels

VARIABLES
  sold,     \* labels bought so far
  old,      \* labels 1..old are more than max_age_hours old
  order,    \* [Labels -> the order it was bought for, or None]
  file,     \* the history file: a history, None when empty, Mixed when it does not parse
  zpl,      \* [Orders -> label whose ZPL the order's file holds, or None, Mixed]
  pc,       \* [Labels -> where the thread that saves the label stands]
  copy,     \* [Labels -> the history that thread holds]
  hasZpl,   \* labels whose ZPL file could be written
  unlinked, \* labels whose ZPL file was removed while it was being written
  (* who disturbed whom, for the properties only *)
  alone,    \* saves that no other save has overlapped so far
  last,     \* [Orders -> label that a save last put into the file]
  suspect,  \* orders whose entry an overlapping or broken-off save may have disturbed
  (* one reprint at a time *)
  reprint   \* its stage, order, ZPL, tracking number; calm: no save ran since it began

diskVars == <<file, zpl>>
zplVars == <<hasZpl, unlinked>>
ghostVars == <<alone, last, suspect>>
vars == <<sold, old, order, diskVars, pc, copy, zplVars, ghostVars, reprint>>

(***************************************************************************)
(* A history: the record of an order, whether that has a zpl_path, and the *)
(* links of tracking numbers.  (The links of SO forms lead lookup where it *)
(* goes without them.)                                                     *)
(***************************************************************************)
Histories ==
  [label    : [Orders -> Labels \cup {None}],
   path     : SUBSET Orders,
   tracking : [Labels -> Orders \cup {None}]]

ASSUME HistoriesAssumption == None \notin Histories /\ Mixed \notin Histories

EmptyHistory ==
  [label    |-> [o \in Orders |-> None],
   path     |-> {},
   tracking |-> [l \in Labels |-> None]]

\* What json.load makes of the file; any failure to read counts as an empty history.
Loaded == IF file \in {None, Mixed} THEN EmptyHistory ELSE file

Saving(l) == pc[l] \notin {"unsold", "done"}

TypeOK ==
  /\ sold \in 0..MaxLabels
  /\ old \in 0..sold
  /\ order \in [Labels -> Orders \cup {None}]
  /\ file \in Histories \cup {None, Mixed}
  /\ zpl \in [Orders -> Labels \cup {None, Mixed}]
  /\ pc \in [Labels -> {"unsold", "zpl", "read", "open", "write", "sweep",
                        "remove", "reopen", "rewrite", "done"}]
  /\ copy \in [Labels -> Histories]
  /\ hasZpl \subseteq Labels
  /\ unlinked \subseteq Labels
  /\ alone \subseteq Labels
  /\ last \in [Orders -> Labels \cup {None}]
  /\ suspect \subseteq Orders
  /\ reprint \in [stage    : {"idle", "zpl", "lookup", "answered"},
                  order    : Orders \cup {None},
                  zpl      : Labels \cup {None, Mixed},
                  tracking : Labels \cup {None},
                  calm     : BOOLEAN]
  /\ reprint.stage # "idle" => reprint.order \in Orders

NoReprint ==
  [stage |-> "idle", order |-> None, zpl |-> None, tracking |-> None, calm |-> FALSE]

Init ==
  /\ sold = 0
  /\ old = 0
  /\ order = [l \in Labels |-> None]
  /\ file = EmptyHistory
  /\ zpl = [o \in Orders |-> None]
  /\ pc = [l \in Labels |-> "unsold"]
  /\ copy = [l \in Labels |-> EmptyHistory]
  /\ hasZpl = {}
  /\ unlinked = {}
  /\ alone = {}
  /\ last = [o \in Orders |-> None]
  /\ suspect = {}
  /\ reprint = NoReprint

Goto(l, next) == pc' = [pc EXCEPT ![l] = next]
Hold(l, history) == copy' = [copy EXCEPT ![l] = history]

(***************************************************************************)
(* save.  ShipRush has sold the next label for order o: the ZPL is decoded *)
(* and its file opened, which empties it, and written.  Each may fail, and *)
(* the record then gets no zpl_path.  A file that a sweep has removed      *)
(* meanwhile takes the ZPL with it.                                        *)
(***************************************************************************)
BeginSave(o) ==
  /\ sold < MaxLabels
  /\ Cardinality({l \in Labels : Saving(l)}) < MaxSaves
  /\ sold' = sold + 1
  /\ order' = [order EXCEPT ![sold + 1] = o]
  /\ \/ zpl' = [zpl EXCEPT ![o] = None] /\ Goto(sold + 1, "zpl")
     \/ UNCHANGED zpl /\ Goto(sold + 1, "read")
  /\ IF \E l \in Labels : Saving(l)
       THEN alone' = {} /\ suspect' = Orders
       ELSE alone' = {sold + 1} /\ UNCHANGED suspect
  /\ reprint' = [reprint EXCEPT !.calm = FALSE]
  /\ UNCHANGED <<old, file, copy, hasZpl, unlinked, last>>

\* A mistake the runs must detect: one ZPL file name for all orders.
Bug_OneZplFile(l) ==
  /\ pc[l] = "zpl"
  /\ hasZpl' = hasZpl \cup {l}
  /\ zpl' = [o \in Orders |-> l]
  /\ Goto(l, "read")
  /\ UNCHANGED <<sold, old, order, file, copy, unlinked, ghostVars, reprint>>

WriteZpl(l) ==
  /\ pc[l] = "zpl"
  /\ \/ /\ hasZpl' = hasZpl \cup {l}
        /\ \/ l \notin unlinked /\ zpl' = [zpl EXCEPT ![order[l]] = l]
           \/ l \notin unlinked /\ zpl[order[l]] # None /\ zpl' = [zpl EXCEPT ![order[l]] = Mixed]
           \/ l \in unlinked /\ UNCHANGED zpl
     \/ UNCHANGED <<zpl, hasZpl>>
  /\ Goto(l, "read")
  /\ UNCHANGED <<sold, old, order, file, copy, unlinked, ghostVars, reprint>>

ReadHistory(l) ==
  /\ pc[l] = "read"
  /\ Hold(l, Loaded)
  /\ Goto(l, "open")
  /\ UNCHANGED <<sold, old, order, diskVars, zplVars, ghostVars, reprint>>

\* A mistake the runs must detect: zpl_path is set even when the ZPL could not be written.
Bug_PathAnyway(h, l) ==
  [label    |-> [h.label EXCEPT ![order[l]] = l],
   path     |-> h.path \cup {order[l]},
   tracking |-> [h.tracking EXCEPT ![l] = order[l]]]

\* A mistake the runs must detect: the record is changed in place and keeps its zpl_path.
Bug_PathKept(h, l) ==
  [label    |-> [h.label EXCEPT ![order[l]] = l],
   path     |-> h.path,
   tracking |-> [h.tracking EXCEPT ![l] = order[l]]]

\* The record of the order and the link of the tracking number.
WithLabel(h, l) ==
  LET o == order[l] IN
  [label    |-> [h.label EXCEPT ![o] = l],
   path     |-> IF l \in hasZpl THEN h.path \cup {o} ELSE h.path \ {o},
   tracking |-> [h.tracking EXCEPT ![l] = o]]

\* open(history_file, 'w') in save and in cleanup_expired.
OpenHistory(l) ==
  /\ \/ pc[l] = "open" /\ Goto(l, "write") /\ Hold(l, WithLabel(copy[l], l))
     \/ pc[l] = "reopen" /\ Goto(l, "rewrite") /\ UNCHANGED copy
  /\ file' = None
  /\ UNCHANGED <<sold, old, order, zpl, zplVars, ghostVars, reprint>>

\* What another thread has written since this one opened the file lies under its own text.
Dump(l) ==
  \/ file' = copy[l]
  \/ file # None /\ file' = Mixed

WriteHistory(l) ==
  /\ pc[l] = "write"
  /\ Dump(l)
  /\ last' = [last EXCEPT ![order[l]] = l]
  /\ Hold(l, EmptyHistory)
  /\ Goto(l, "sweep")
  /\ UNCHANGED <<sold, old, order, zpl, zplVars, alone, suspect, reprint>>

\* A mistake the runs must detect: a label is taken for expired too early.
Bug_ExpiresEarly(h) == {o \in Orders : h.label[o] # None /\ h.label[o] <= old + 1}

(***************************************************************************)
(* cleanup_expired, at the end of every save: the ZPL files of expired     *)
(* records go, then the records and the links to them.                     *)
(***************************************************************************)
Expired(h) == {o \in Orders : h.label[o] # None /\ h.label[o] <= old}

Swept(h) ==
  LET gone == Expired(h) IN
  [label    |-> [o \in Orders |-> IF o \in gone THEN None ELSE h.label[o]],
   path     |-> h.path \ gone,
   tracking |-> [l \in Labels |-> IF h.tracking[l] \in gone THEN None ELSE h.tracking[l]]]

\* The save is over; if no other overlapped it, its order is as it left it.
Finish(l) ==
  /\ Goto(l, "done")
  /\ Hold(l, EmptyHistory)
  /\ alone' = alone \ {l}
  /\ suspect' = IF l \in alone THEN suspect \ {order[l]} ELSE suspect

Sweep(l) ==
  /\ pc[l] = "sweep"
  /\ IF Expired(Loaded) = {}
       THEN Finish(l)
       ELSE /\ Hold(l, Loaded)
            /\ Goto(l, "remove")
            /\ UNCHANGED <<alone, suspect>>
  /\ UNCHANGED <<sold, old, order, diskVars, zplVars, last, reprint>>

RemoveExpired(l) ==
  /\ pc[l] = "remove"
  /\ LET gone == Expired(copy[l]) \cap copy[l].path IN
     /\ zpl' = [o \in Orders |-> IF o \in gone THEN None ELSE zpl[o]]
     /\ unlinked' = unlinked \cup {j \in Labels : pc[j] = "zpl" /\ order[j] \in gone}
  /\ Hold(l, Swept(copy[l]))
  /\ Goto(l, "reopen")
  /\ UNCHANGED <<sold, old, order, file, hasZpl, ghostVars, reprint>>

RewriteHistory(l) ==
  /\ pc[l] = "rewrite"
  /\ Dump(l)
  /\ Finish(l)
  /\ UNCHANGED <<sold, old, order, zpl, zplVars, last, reprint>>

(***************************************************************************)
(* An OSError that leaves save, or the death of the process, at any step.  *)
(***************************************************************************)
BreakOff(l) ==
  /\ Saving(l)
  /\ Goto(l, "done")
  /\ Hold(l, EmptyHistory)
  /\ alone' = alone \ {l}
  /\ IF pc[l] \in {"write", "rewrite"}
       THEN suspect' = Orders /\ file' \in {file, Mixed}
       ELSE suspect' = suspect \cup {order[l]} /\ UNCHANGED file
  /\ UNCHANGED <<sold, old, order, zpl, hasZpl, unlinked, last, reprint>>

\* Time passes: the labels up to l are more than max_age_hours old.
Age(l) ==
  /\ old < l /\ l <= sold
  /\ old' = l
  /\ UNCHANGED <<sold, order, diskVars, pc, copy, zplVars, ghostVars, reprint>>

(***************************************************************************)
(* lookup.  An order number is tried as scanned, with SO before it and     *)
(* without; whichever of the two forms the file has, the record's or the   *)
(* link's, leads to the record.  A tracking number leads to its order.     *)
(***************************************************************************)
LookupOrder(h, o) == h.label[o]

LookupTracking(h, l) ==
  LET o == h.tracking[l] IN IF o = None THEN None ELSE h.label[o]

(***************************************************************************)
(* reprint: get_zpl_b64 looks the order up and, if the record has a path   *)
(* that exists, reads the ZPL; the history is then read a second time for  *)
(* the tracking number.  An empty ZPL is "not found".                      *)
(***************************************************************************)
ReprintRequest(o) ==
  /\ reprint.stage = "idle"
  /\ LookupOrder(Loaded, o) # None
  /\ o \in Loaded.path
  /\ reprint' = [reprint EXCEPT !.stage = "zpl", !.order = o,
                                !.calm = \A l \in Labels : ~Saving(l)]
  /\ UNCHANGED <<sold, old, order, diskVars, pc, copy, zplVars, ghostVars>>

ReprintZpl ==
  /\ reprint.stage = "zpl"
  /\ reprint' = IF zpl[reprint.order] = None
                  THEN NoReprint
                  ELSE [reprint EXCEPT !.stage = "lookup", !.zpl = zpl[reprint.order]]
  /\ UNCHANGED <<sold, old, order, diskVars, pc, copy, zplVars, ghostVars>>

ReprintTracking ==
  /\ reprint.stage = "lookup"
  /\ reprint' = [reprint EXCEPT !.stage = "answered",
                                !.tracking = LookupOrder(Loaded, reprint.order)]
  /\ UNCHANGED <<sold, old, order, diskVars, pc, copy, zplVars, ghostVars>>

ReprintDone ==
  /\ reprint.stage = "answered"
  /\ reprint' = NoReprint
  /\ UNCHANGED <<sold, old, order, diskVars, pc, copy, zplVars, ghostVars>>

Save(l) ==
  \/ WriteZpl(l) \/ ReadHistory(l) \/ OpenHistory(l) \/ WriteHistory(l)
  \/ Sweep(l) \/ RemoveExpired(l) \/ RewriteHistory(l)
  \/ BreakOff(l)

Next ==
  \/ \E o \in Orders : BeginSave(o) \/ ReprintRequest(o)
  \/ \E l \in Labels : Save(l) \/ Age(l)
  \/ ReprintZpl \/ ReprintTracking \/ ReprintDone

Spec == Init /\ [][Next]_vars

-----------------------------------------------------------------------------
OwnLabels(o) == {l \in Labels : order[l] = o}

(* However saves, sweeps and broken-off writes overlap: an order number    *)
(* leads to a label bought for that order, a tracking number to one of the *)
(* order it was bought for, and a reprint's ZPL and tracking number are    *)
(* the order's, so that no void refunds another order's label (lookup).    *)
AnswersAreOwn ==
  /\ \A o \in Orders : LookupOrder(Loaded, o) \in OwnLabels(o) \cup {None}
  /\ \A l \in Labels : LookupTracking(Loaded, l) \in OwnLabels(order[l]) \cup {None}
  /\ reprint.zpl \in OwnLabels(reprint.order) \cup {None, Mixed}
  /\ reprint.tracking \in OwnLabels(reprint.order) \cup {None}

(* Once saved without another save in between, the label of an order is    *)
(* what lookup finds, through every later save and sweep that is alone,    *)
(* until it expires or the order's next label takes its place.             *)
LatestIsKept ==
  file \in Histories =>
    \A o \in Orders \ suspect :
       file.label[o] # last[o] => file.label[o] = None /\ last[o] <= old

(* "Only labels from recent orders (last 8 hours) can be reprinted": for   *)
(* an order no save has disturbed, a label that is recent and whose ZPL    *)
(* was written is there to be reprinted whenever no save is running.       *)
RecentIsReprintable ==
  (\A l \in Labels : ~Saving(l)) =>
    \A o \in Orders \ suspect :
       last[o] # None /\ last[o] > old /\ last[o] \in hasZpl =>
         LookupOrder(Loaded, o) = last[o] /\ o \in Loaded.path /\ zpl[o] = last[o]

(* A reprint reads the history twice and the ZPL in between: unless a save *)
(* ran meanwhile or had disturbed the order, the tracking number shown is  *)
(* that of the label printed.                                              *)
ReprintMatches ==
  reprint.stage = "answered" /\ reprint.calm /\ reprint.order \notin suspect =>
    reprint.tracking = reprint.zpl

(* No link outlives the record it leads to, whichever thread wrote last    *)
(* ("Also remove link entries that point to expired orders").              *)
LinksLead ==
  \A l \in Labels : Loaded.tracking[l] # None => LookupTracking(Loaded, l) # None
=============================================================================
