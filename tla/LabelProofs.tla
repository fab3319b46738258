---------------------------- MODULE LabelProofs ----------------------------
(***************************************************************************)
(* Proofs about LabelCache, for any orders, any number of labels and any   *)
(* number of saves at a time.                                              *)
(***************************************************************************)
EXTENDS LabelCache, TLAPS

(* A label has an order, and a thread, from the moment it is sold.         *)
SoldInv ==
  \A l \in Labels : IF l <= sold THEN order[l] \in Orders /\ pc[l] # "unsold"
                                 ELSE order[l] = None /\ pc[l] = "unsold"

LEMMA LoadedType == ASSUME TypeOK PROVE Loaded \in Histories
BY LabelsAssumption DEF TypeOK, Loaded, EmptyHistory, Histories

LEMMA WithLabelType ==
  ASSUME NEW h \in Histories, NEW l \in Labels, order[l] \in Orders
  PROVE  WithLabel(h, l) \in Histories
BY DEF WithLabel, Histories

LEMMA SweptType ==
  ASSUME NEW h \in Histories
  PROVE  Swept(h) \in Histories
BY DEF Swept, Histories

(* Every variable keeps its type.                                          *)
THEOREM LabelsTypeCorrect == Spec => [](TypeOK /\ SoldInv)
<1>1. Init => TypeOK /\ SoldInv
  BY LabelsAssumption DEF Init, TypeOK, SoldInv, Labels, EmptyHistory, Histories, NoReprint
<1>2. TypeOK /\ SoldInv /\ [Next]_vars => TypeOK' /\ SoldInv'
  <2> SUFFICES ASSUME TypeOK, SoldInv, [Next]_vars PROVE TypeOK' /\ SoldInv'
    OBVIOUS
  <2> USE LabelsAssumption DEF TypeOK, SoldInv
  <2>0. EmptyHistory \in Histories /\ Loaded \in Histories
    BY LoadedType DEF EmptyHistory, Histories
  <2>1. ASSUME NEW o \in Orders, BeginSave(o) PROVE TypeOK' /\ SoldInv'
    <3>1. sold + 1 \in Labels /\ sold + 1 \in 0..MaxLabels
      BY <2>1 DEF BeginSave, Labels
    <3>2. old' \in 0..sold'
      BY <2>1, <3>1 DEF BeginSave
    <3>3. reprint' \in [stage : {"idle", "zpl", "lookup", "answered"},
                        order : Orders \cup {None}, zpl : Labels \cup {None, Mixed},
                        tracking : Labels \cup {None}, calm : BOOLEAN]
      BY <2>1 DEF BeginSave
    <3>4. /\ order' = [order EXCEPT ![sold + 1] = o]
          /\ \E p \in {"zpl", "read"} : pc' = [pc EXCEPT ![sold + 1] = p]
          /\ sold' = sold + 1
      BY <2>1 DEF BeginSave, Goto
    <3>5. SoldInv'
      BY <3>1, <3>4 DEF Labels
    <3>6. zpl' \in [Orders -> Labels \cup {None, Mixed}]
      BY <2>1 DEF BeginSave
    <3>7. alone' \subseteq Labels /\ suspect' \subseteq Orders
      BY <2>1, <3>1 DEF BeginSave
    <3>8. order' \in [Labels -> Orders \cup {None}]
      BY <3>1, <3>4
    <3>9. pc' \in [Labels -> {"unsold", "zpl", "read", "open", "write", "sweep",
                              "remove", "reopen", "rewrite", "done"}]
      BY <3>1, <3>4
    <3> QED
      BY <2>1, <3>1, <3>2, <3>3, <3>5, <3>6, <3>7, <3>8, <3>9 DEF BeginSave
  <2>2. ASSUME NEW o \in Orders, ReprintRequest(o) PROVE TypeOK' /\ SoldInv'
    BY <2>2 DEF ReprintRequest, diskVars, zplVars, ghostVars
  <2>3. ASSUME NEW l \in Labels, WriteZpl(l) PROVE TypeOK' /\ SoldInv'
    BY <2>3 DEF WriteZpl, Goto, ghostVars
  <2>4. ASSUME NEW l \in Labels, ReadHistory(l) PROVE TypeOK' /\ SoldInv'
    BY <2>0, <2>4 DEF ReadHistory, Goto, Hold, diskVars, zplVars, ghostVars
  <2>5. ASSUME NEW l \in Labels, OpenHistory(l) PROVE TypeOK' /\ SoldInv'
    <3>1. order[l] \in Orders
      BY <2>5 DEF OpenHistory, Labels
    <3>2. WithLabel(copy[l], l) \in Histories
      BY <3>1, WithLabelType
    <3> QED
      BY <2>5, <3>2 DEF OpenHistory, Goto, Hold, zplVars, ghostVars
  <2>6. ASSUME NEW l \in Labels, WriteHistory(l) PROVE TypeOK' /\ SoldInv'
    BY <2>0, <2>6 DEF WriteHistory, Dump, Goto, Hold, zplVars
  <2>7. ASSUME NEW l \in Labels, Sweep(l) PROVE TypeOK' /\ SoldInv'
    BY <2>0, <2>7 DEF Sweep, Finish, Goto, Hold, diskVars, zplVars
  <2>8. ASSUME NEW l \in Labels, RemoveExpired(l) PROVE TypeOK' /\ SoldInv'
    BY <2>8, SweptType DEF RemoveExpired, Goto, Hold, ghostVars
  <2>9. ASSUME NEW l \in Labels, RewriteHistory(l) PROVE TypeOK' /\ SoldInv'
    BY <2>0, <2>9 DEF RewriteHistory, Dump, Finish, Goto, Hold, zplVars
  <2>10. ASSUME NEW l \in Labels, BreakOff(l) PROVE TypeOK' /\ SoldInv'
    <3>1. order[l] \in Orders
      BY <2>10 DEF BreakOff, Saving, Labels
    <3> QED
      BY <2>0, <2>10, <3>1 DEF BreakOff, Goto, Hold, zplVars
  <2>11. ASSUME NEW l \in Labels, Age(l) PROVE TypeOK' /\ SoldInv'
    BY <2>11 DEF Age, Labels, diskVars, zplVars, ghostVars
  <2>12. CASE ReprintZpl \/ ReprintDone
    <3>1. NoReprint \in [stage : {"idle", "zpl", "lookup", "answered"},
                         order : Orders \cup {None}, zpl : Labels \cup {None, Mixed},
                         tracking : Labels \cup {None}, calm : BOOLEAN]
      BY DEF NoReprint
    <3>2. ASSUME reprint' = NoReprint PROVE reprint'.stage = "idle"
      BY <3>2 DEF NoReprint
    <3>3. CASE ReprintDone
      BY <3>1, <3>2, <3>3 DEF ReprintDone, diskVars, zplVars, ghostVars
    <3>4. CASE ReprintZpl
      <4>1. zpl[reprint.order] \in Labels \cup {None, Mixed}
        BY <3>4 DEF ReprintZpl
      <4> QED
        BY <3>1, <3>2, <3>4, <4>1 DEF ReprintZpl, diskVars, zplVars, ghostVars
    <3> QED
      BY <2>12, <3>3, <3>4
  <2>13. CASE ReprintTracking
    <3>2. LookupOrder(Loaded, reprint.order) \in Labels \cup {None}
      BY <2>0, <2>13 DEF LookupOrder, ReprintTracking, Histories
    <3> QED
      BY <2>13, <3>2 DEF ReprintTracking, diskVars, zplVars, ghostVars
  <2>14. CASE UNCHANGED vars
    BY <2>14 DEF vars, diskVars, zplVars, ghostVars
  <2> QED
    BY <2>1, <2>2, <2>3, <2>4, <2>5, <2>6, <2>7, <2>8, <2>9, <2>10, <2>11, <2>12, <2>13, <2>14
       DEF Next, Save
<1> QED
  BY <1>1, <1>2, PTL DEF Spec

-----------------------------------------------------------------------------
(* A history is sound: every record is a label of its order, and a link    *)
(* leads to the order of its label, which has a record.                    *)
Sound(h) ==
  /\ \A o \in Orders : h.label[o] # None => order[h.label[o]] = o
  /\ \A l \in Labels : h.tracking[l] # None =>
        h.tracking[l] = order[l] /\ h.label[order[l]] # None

(* Whatever a thread holds, and whatever it finds in a file, is sound: so  *)
(* it does not matter who writes last.                                     *)
OwnInv ==
  /\ Sound(Loaded)
  /\ \A l \in Labels : Sound(copy[l])
  /\ \A o \in Orders : zpl[o] \in Labels => order[zpl[o]] = o
  /\ reprint.zpl \in Labels => reprint.order \in Orders /\ order[reprint.zpl] = reprint.order
  /\ reprint.tracking \in Labels =>
       reprint.order \in Orders /\ order[reprint.tracking] = reprint.order
  /\ reprint.stage = "idle" => reprint.zpl = None /\ reprint.tracking = None

LEMMA SoundEmpty == Sound(EmptyHistory)
BY DEF Sound, EmptyHistory

LEMMA SoundWithLabel ==
  ASSUME LabelsAssumption, NEW h \in Histories, Sound(h), NEW l \in Labels, order[l] \in Orders
  PROVE  Sound(WithLabel(h, l))
<1>1. l # None
  BY LabelsAssumption DEF Labels
<1> QED
  BY <1>1 DEF Sound, WithLabel, Histories

LEMMA SoundSwept ==
  ASSUME NEW h \in Histories, Sound(h)
  PROVE  Sound(Swept(h))
BY DEF Sound, Swept, Histories

(* What lookup, void and reprint are told about an order is the order's    *)
(* own, and every link leads to a record.                                  *)
LEMMA OwnInvStep ==
  ASSUME TypeOK, TypeOK', SoldInv, OwnInv, [Next]_vars
  PROVE  OwnInv'
<1> USE LabelsAssumption
<1>0. Loaded \in Histories /\ Sound(EmptyHistory) /\ \A l \in Labels : copy[l] \in Histories
  BY LoadedType, SoundEmpty DEF TypeOK
<1>1. ASSUME NEW o \in Orders, BeginSave(o) PROVE OwnInv'
  <2>1. sold + 1 \in Labels /\ order[sold + 1] = None
    BY <1>1 DEF BeginSave, TypeOK, SoldInv, Labels
  <2>2. order' = [order EXCEPT ![sold + 1] = o] /\ None \notin Orders
    BY <1>1 DEF BeginSave
  <2>3. Sound(Loaded)' /\ \A l \in Labels : Sound(copy[l])'
    <3>1. Loaded' = Loaded /\ copy' = copy
      BY <1>1 DEF BeginSave, Loaded, EmptyHistory
    <3>2. \A h \in Histories : Sound(h) =>
             /\ \A p \in Orders : h.label[p] # None => order'[h.label[p]] = p
             /\ \A l \in Labels : h.tracking[l] # None =>
                   h.tracking[l] = order'[l] /\ h.label[order'[l]] # None
      BY <2>1, <2>2 DEF Sound, Histories, TypeOK
    <3> QED
      BY <1>0, <3>1, <3>2 DEF Sound, OwnInv
  <2>4. \A p \in Orders : zpl'[p] \in Labels => zpl'[p] = zpl[p]
    BY <1>1 DEF BeginSave, TypeOK, Labels
  <2>5. /\ reprint'.zpl = reprint.zpl /\ reprint'.tracking = reprint.tracking
        /\ reprint'.order = reprint.order /\ reprint'.stage = reprint.stage
    BY <1>1 DEF BeginSave, TypeOK
  <2>6. \A l \in Labels : order[l] # None => order'[l] = order[l]
    BY <2>1, <2>2 DEF TypeOK
  <2>7. \A p \in Orders : zpl'[p] \in Labels => order'[zpl'[p]] = p
    BY <2>2, <2>4, <2>6 DEF OwnInv
  <2>8. /\ reprint'.zpl \in Labels =>
             reprint'.order \in Orders /\ order'[reprint'.zpl] = reprint'.order
        /\ reprint'.tracking \in Labels =>
             reprint'.order \in Orders /\ order'[reprint'.tracking] = reprint'.order
    BY <2>5, <2>6 DEF OwnInv
  <2>9. reprint'.stage = "idle" => reprint'.zpl = None /\ reprint'.tracking = None
    BY <2>5 DEF OwnInv
  <2> QED
    BY <2>3, <2>7, <2>8, <2>9 DEF OwnInv
<1>2. ASSUME NEW o \in Orders, ReprintRequest(o) PROVE OwnInv'
  <2>1. reprint'.stage = "zpl" /\ reprint'.zpl = reprint.zpl /\ reprint'.tracking = reprint.tracking
    BY <1>2 DEF ReprintRequest, TypeOK
  <2>2. reprint'.zpl = None /\ reprint'.tracking = None
    BY <1>2, <2>1 DEF ReprintRequest, OwnInv
  <2> QED
    BY <1>2, <2>1, <2>2 DEF ReprintRequest, OwnInv, Sound, Loaded, EmptyHistory, diskVars, Labels
<1>3. ASSUME NEW l \in Labels, WriteZpl(l) PROVE OwnInv'
  <2>1. order[l] \in Orders
    BY <1>3 DEF WriteZpl, SoldInv, Labels
  <2>2. \A o \in Orders : zpl'[o] \in Labels => order[zpl'[o]] = o
    BY <1>3, <2>1 DEF WriteZpl, OwnInv, TypeOK, Labels
  <2> QED
    BY <1>3, <2>2 DEF WriteZpl, OwnInv, Sound, Loaded, EmptyHistory, ghostVars
<1>4. ASSUME NEW l \in Labels, ReadHistory(l) PROVE OwnInv'
  <2>1. \A j \in Labels : copy'[j] = copy[j] \/ copy'[j] = Loaded
    BY <1>4 DEF ReadHistory, Hold, TypeOK
  <2>2. \A j \in Labels : Sound(copy'[j])
    BY <2>1 DEF OwnInv
  <2> QED
    BY <1>4, <2>2 DEF ReadHistory, OwnInv, Sound, Loaded, EmptyHistory, diskVars, zplVars, ghostVars
<1>5. ASSUME NEW l \in Labels, OpenHistory(l) PROVE OwnInv'
  <2>1. order[l] \in Orders
    BY <1>5 DEF OpenHistory, SoldInv, Labels
  <2>2. Sound(WithLabel(copy[l], l))
    BY <1>0, <2>1, SoundWithLabel DEF OwnInv
  <2>3. \A j \in Labels : copy'[j] = copy[j] \/ copy'[j] = WithLabel(copy[l], l)
    BY <1>5 DEF OpenHistory, Hold, TypeOK
  <2>4. \A j \in Labels : Sound(copy'[j])
    BY <2>2, <2>3 DEF OwnInv
  <2>5. Loaded' = EmptyHistory
    BY <1>5 DEF OpenHistory, Loaded, EmptyHistory
  <2> QED
    BY <1>0, <1>5, <2>4, <2>5 DEF OpenHistory, OwnInv, Sound, zplVars, ghostVars
<1>6. ASSUME NEW l \in Labels, WriteHistory(l) \/ RewriteHistory(l) PROVE OwnInv'
  <2>1. \A j \in Labels : copy'[j] = copy[j] \/ copy'[j] = EmptyHistory
    BY <1>6 DEF WriteHistory, RewriteHistory, Finish, Hold, TypeOK
  <2>2. \A j \in Labels : Sound(copy'[j])
    BY <1>0, <2>1 DEF OwnInv
  <2>3. Loaded' = copy[l] \/ Loaded' = EmptyHistory
    BY <1>6 DEF WriteHistory, RewriteHistory, Dump, Loaded, EmptyHistory
  <2>4. Sound(Loaded')
    BY <1>0, <2>3 DEF OwnInv
  <2> QED
    BY <1>6, <2>2, <2>4 DEF WriteHistory, RewriteHistory, OwnInv, Sound, zplVars
<1>7. ASSUME NEW l \in Labels, Sweep(l) PROVE OwnInv'
  <2>1. \A j \in Labels : copy'[j] \in {copy[j], EmptyHistory, Loaded}
    BY <1>7 DEF Sweep, Finish, Hold, TypeOK
  <2>2. \A j \in Labels : Sound(copy'[j])
    BY <1>0, <2>1 DEF OwnInv
  <2> QED
    BY <1>7, <2>2 DEF Sweep, OwnInv, Sound, Loaded, EmptyHistory, diskVars, zplVars
<1>8. ASSUME NEW l \in Labels, RemoveExpired(l) PROVE OwnInv'
  <2>1. \A j \in Labels : copy'[j] = copy[j] \/ copy'[j] = Swept(copy[l])
    BY <1>8 DEF RemoveExpired, Hold, TypeOK
  <2>2. \A j \in Labels : Sound(copy'[j])
    BY <1>0, <2>1, SoundSwept DEF OwnInv
  <2>3. \A o \in Orders : zpl'[o] \in Labels => order[zpl'[o]] = o
    BY <1>8 DEF RemoveExpired, OwnInv, Labels
  <2> QED
    BY <1>8, <2>2, <2>3 DEF RemoveExpired, OwnInv, Sound, Loaded, EmptyHistory, ghostVars
<1>9. ASSUME NEW l \in Labels, BreakOff(l) PROVE OwnInv'
  <2>1. \A j \in Labels : copy'[j] = copy[j] \/ copy'[j] = EmptyHistory
    BY <1>9 DEF BreakOff, Hold, TypeOK
  <2>2. \A j \in Labels : Sound(copy'[j])
    BY <1>0, <2>1 DEF OwnInv
  <2>3. Loaded' = Loaded \/ Loaded' = EmptyHistory
    BY <1>9 DEF BreakOff, Loaded, EmptyHistory
  <2>4. Sound(Loaded')
    BY <1>0, <2>3 DEF OwnInv
  <2> QED
    BY <1>9, <2>2, <2>4 DEF BreakOff, OwnInv, Sound
<1>10. ASSUME NEW l \in Labels, Age(l) PROVE OwnInv'
  BY <1>10 DEF Age, OwnInv, Sound, Loaded, EmptyHistory, diskVars, zplVars, ghostVars
<1>11. CASE ReprintDone
  <2>1. reprint'.zpl = None /\ reprint'.tracking = None
    BY <1>11 DEF ReprintDone, NoReprint
  <2> QED
    BY <1>11, <2>1 DEF ReprintDone, OwnInv, Sound, Loaded, EmptyHistory, diskVars, Labels
<1>12. CASE ReprintZpl
  <2>1. reprint.order \in Orders
    BY <1>12 DEF ReprintZpl, TypeOK
  <2>2. CASE reprint' = NoReprint
    <3>1. reprint'.zpl = None /\ reprint'.tracking = None
      BY <2>2 DEF NoReprint
    <3> QED
      BY <1>12, <3>1 DEF ReprintZpl, OwnInv, Sound, Loaded, EmptyHistory, diskVars, Labels
  <2>3. CASE reprint' = [reprint EXCEPT !.stage = "lookup", !.zpl = zpl[reprint.order]]
    <3>1. /\ reprint'.stage = "lookup" /\ reprint'.zpl = zpl[reprint.order]
          /\ reprint'.order = reprint.order /\ reprint'.tracking = reprint.tracking
      BY <2>3 DEF TypeOK
    <3> QED
      BY <1>12, <2>1, <3>1 DEF ReprintZpl, OwnInv, Sound, Loaded, EmptyHistory, diskVars
  <2> QED
    BY <1>12, <2>2, <2>3 DEF ReprintZpl
<1>13. CASE ReprintTracking
  <2>1. reprint.order \in Orders
    BY <1>13 DEF ReprintTracking, TypeOK
  <2>2. LookupOrder(Loaded, reprint.order) \in Labels =>
          order[LookupOrder(Loaded, reprint.order)] = reprint.order
    BY <2>1 DEF LookupOrder, OwnInv, Sound, Labels
  <2>3. /\ reprint'.stage = "answered" /\ reprint'.zpl = reprint.zpl
        /\ reprint'.order = reprint.order
        /\ reprint'.tracking = LookupOrder(Loaded, reprint.order)
    BY <1>13 DEF ReprintTracking, TypeOK
  <2> QED
    BY <1>13, <2>1, <2>2, <2>3 DEF ReprintTracking, OwnInv, Sound, Loaded, EmptyHistory, diskVars
<1>14. CASE UNCHANGED vars
  BY <1>14 DEF vars, OwnInv, Sound, Loaded, EmptyHistory, diskVars
<1> QED
  BY <1>1, <1>2, <1>3, <1>4, <1>5, <1>6, <1>7, <1>8, <1>9, <1>10, <1>11, <1>12, <1>13, <1>14
     DEF Next, Save

LEMMA OwnInvHolds == Spec => []OwnInv
<1>1. Init => OwnInv
  BY LabelsAssumption, SoundEmpty DEF Init, OwnInv, Loaded, NoReprint, Labels
<1>2. TypeOK /\ TypeOK' /\ SoldInv /\ OwnInv /\ [Next]_vars => OwnInv'
  BY OwnInvStep
<1>3. Spec => [](TypeOK /\ SoldInv)
  BY LabelsTypeCorrect
<1> QED
  BY <1>1, <1>2, <1>3, PTL DEF Spec

(* An order number leads to a label of that order, a tracking number to    *)
(* one of the order it was bought for, however the threads overlap.        *)
THEOREM OwnAnswers == Spec => []AnswersAreOwn
<1>1. TypeOK /\ OwnInv => AnswersAreOwn
  <2> SUFFICES ASSUME TypeOK, OwnInv PROVE AnswersAreOwn
    OBVIOUS
  <2>1. Loaded \in Histories
    BY LoadedType
  <2>2. \A o \in Orders : LookupOrder(Loaded, o) \in OwnLabels(o) \cup {None}
    BY <2>1 DEF LookupOrder, OwnLabels, OwnInv, Sound, Histories
  <2>3. \A l \in Labels : LookupTracking(Loaded, l) \in OwnLabels(order[l]) \cup {None}
    BY <2>1 DEF LookupTracking, OwnLabels, OwnInv, Sound, Histories
  <2>4. /\ reprint.zpl \in OwnLabels(reprint.order) \cup {None, Mixed}
        /\ reprint.tracking \in OwnLabels(reprint.order) \cup {None}
    BY DEF TypeOK, OwnLabels, OwnInv
  <2> QED
    BY <2>2, <2>3, <2>4 DEF AnswersAreOwn
<1> QED
  BY <1>1, LabelsTypeCorrect, OwnInvHolds, PTL

(* No link outlives the record it leads to.                                *)
THEOREM LinksAreLive == Spec => []LinksLead
<1>1. TypeOK /\ OwnInv => LinksLead
  BY LoadedType DEF LinksLead, LookupTracking, OwnInv, Sound, Histories
<1> QED
  BY <1>1, LabelsTypeCorrect, OwnInvHolds, PTL

-----------------------------------------------------------------------------
(* What a history says of order o that no save has disturbed: its last     *)
(* label, or nothing any more; and the ZPL file that goes with it.         *)
Kept(h, o) == h.label[o] # last[o] => h.label[o] = None /\ last[o] <= old

Held(h, o) ==
  /\ o \in h.path => zpl[o] \in {h.label[o], None}
  /\ last[o] # None /\ last[o] > old /\ last[o] \in hasZpl => o \in h.path /\ zpl[o] = last[o]

Undisturbed == Orders \ suspect
Others(l) == Undisturbed \ {order[l]}
Touched(l) == Undisturbed \cup {order[l]}

(* A save is alone, or every order is suspect.                             *)
AloneInv ==
  /\ \A l \in alone : Saving(l) /\ \A j \in Labels : Saving(j) => j = l
  /\ \A l \in Labels : Saving(l) /\ l \notin alone => suspect = Orders

QuietInv ==
  (\A l \in Labels : ~Saving(l)) =>
     \A o \in Undisturbed : file \in Histories /\ Kept(file, o) /\ Held(file, o)

(* What a save that is alone has done so far.                              *)
BeforeWrite(l) ==
  /\ \A o \in Undisturbed : file \in Histories /\ Kept(file, o)
  /\ \A o \in Others(l) : Held(file, o)
  /\ pc[l] = "zpl" => zpl[order[l]] = None /\ l \notin unlinked
  /\ l \in hasZpl => zpl[order[l]] = l
  /\ pc[l] = "open" =>
       (\A o \in Undisturbed : Kept(copy[l], o)) /\ \A o \in Others(l) : Held(copy[l], o)

InWrite(l) ==
  /\ file = None
  /\ copy[l].label[order[l]] = l
  /\ order[l] \in copy[l].path <=> l \in hasZpl
  /\ l \in hasZpl => zpl[order[l]] = l
  /\ \A o \in Others(l) : Kept(copy[l], o) /\ Held(copy[l], o)

AfterWrite(l) ==
  /\ pc[l] = "rewrite" => file = None
  /\ pc[l] # "rewrite" =>
       file \in Histories /\ \A o \in Touched(l) : Kept(file, o) /\ Held(file, o)
  /\ pc[l] # "sweep" => \A o \in Touched(l) : Kept(copy[l], o) /\ Held(copy[l], o)

SaveInv ==
  \A l \in alone :
    /\ pc[l] \in {"zpl", "read", "open"} => BeforeWrite(l)
    /\ pc[l] = "write" => InWrite(l)
    /\ pc[l] \in {"sweep", "remove", "reopen", "rewrite"} => AfterWrite(l)

(* A reprint during which no save runs.                                    *)
CalmInv ==
  reprint.calm /\ reprint.stage # "idle" =>
    /\ \A l \in Labels : ~Saving(l)
    /\ reprint.stage = "zpl" => reprint.order \in Loaded.path
    /\ reprint.stage = "lookup" /\ reprint.order \notin suspect =>
         reprint.zpl = Loaded.label[reprint.order]
    /\ reprint.stage = "answered" /\ reprint.order \notin suspect =>
         reprint.tracking = reprint.zpl

(* Only a thread past the ZPL has one, only one past the write is last.    *)
ProgressInv ==
  /\ \A l \in Labels : pc[l] \in {"unsold", "zpl"} => l \notin hasZpl
  /\ \A l \in Labels : pc[l] = "unsold" => l \notin unlinked
  /\ \A o \in Orders : last[o] # None =>
        pc[last[o]] \in {"sweep", "remove", "reopen", "rewrite", "done"}

CacheInv == AloneInv /\ QuietInv /\ SaveInv /\ CalmInv /\ ProgressInv

LEMMA AloneOrSuspect ==
  ASSUME TypeOK, AloneInv, NEW l \in Labels, Saving(l)
  PROVE  IF l \in alone THEN alone = {l} ELSE alone = {} /\ suspect = Orders
BY DEF AloneInv, TypeOK

(* Where no save is alone every order is suspect and nothing is claimed.   *)
LEMMA CrowdClaimsNothing ==
  ASSUME alone' = {}, suspect' = Orders
  PROVE  AloneInv' /\ QuietInv' /\ SaveInv'
BY DEF AloneInv, QuietInv, SaveInv, Undisturbed

(* The save that is alone goes on: only what it has done is to be shown.   *)
LEMMA AloneGoesOn ==
  ASSUME TypeOK, AloneInv, NEW l \in Labels, Saving(l), alone = {l}, UNCHANGED <<alone, suspect>>,
         NEW next \in {"zpl", "read", "open", "write", "sweep", "remove", "reopen", "rewrite"},
         Goto(l, next)
  PROVE  AloneInv' /\ QuietInv' /\ pc'[l] = next
BY DEF TypeOK, AloneInv, QuietInv, Saving, Goto

(* It ends: the orders it leaves undisturbed are as QuietInv wants them.   *)
LEMMA AloneEnds ==
  ASSUME TypeOK, AloneInv, NEW l \in Labels, Saving(l), alone = {l}, alone' = {}, Goto(l, "done"),
         \A o \in Undisturbed' : file' \in Histories /\ Kept(file, o)' /\ Held(file, o)'
  PROVE  AloneInv' /\ QuietInv' /\ SaveInv'
<1>1. \A j \in Labels : ~Saving(j)'
  BY DEF TypeOK, AloneInv, Saving, Goto
<1> QED
  BY <1>1 DEF AloneInv, QuietInv, SaveInv

LEMMA SaveIsSaving ==
  ASSUME NEW l \in Labels, Save(l)
  PROVE  Saving(l) /\ reprint' = reprint /\ sold' = sold /\ old' = old /\ order' = order
BY DEF Save, Saving, WriteZpl, ReadHistory, OpenHistory, WriteHistory, Sweep, RemoveExpired,
       RewriteHistory, BreakOff, ghostVars, diskVars, zplVars

(* Sweeping leaves what is claimed of an order as it was.                  *)
LEMMA SweptKeeps ==
  ASSUME TypeOK, NEW h \in Histories, NEW o \in Orders, Kept(h, o), o \notin Expired(h)
  PROVE  /\ Swept(h).label[o] = h.label[o]
         /\ o \in Swept(h).path <=> o \in h.path
BY DEF Swept, Histories

LEMMA SaveStepAlone ==
  ASSUME TypeOK, TypeOK', SoldInv, AloneInv, SaveInv, ProgressInv,
         NEW l \in Labels, Save(l), l \in alone
  PROVE  AloneInv' /\ QuietInv' /\ SaveInv'
<1> USE LabelsAssumption
<1>1. Saving(l) /\ alone = {l} /\ old' = old /\ order' = order
  BY SaveIsSaving, AloneOrSuspect
<1>2. order[l] \in Orders /\ l # None /\ None \notin Labels
  BY <1>1 DEF SoldInv, Saving, Labels
<1>3. /\ pc[l] \in {"zpl", "read", "open"} => BeforeWrite(l)
      /\ pc[l] = "write" => InWrite(l)
      /\ pc[l] \in {"sweep", "remove", "reopen", "rewrite"} => AfterWrite(l)
  BY <1>1 DEF SaveInv
<1>4. CASE WriteZpl(l)
  <2>1. UNCHANGED <<alone, suspect, file, copy, last>> /\ Goto(l, "read") /\ pc[l] = "zpl"
    BY <1>4 DEF WriteZpl, ghostVars
  <2>2. AloneInv' /\ QuietInv' /\ pc'[l] = "read"
    BY <1>1, <2>1, AloneGoesOn
  <2>3. BeforeWrite(l)
    BY <1>3, <2>1
  <2>4. \/ hasZpl' = hasZpl /\ zpl' = zpl
        \/ hasZpl' = hasZpl \cup {l} /\ zpl' = [zpl EXCEPT ![order[l]] = l]
    BY <1>4, <2>1, <2>3 DEF WriteZpl, BeforeWrite
  <2>5. \A o \in Orders : last[o] # None => last[o] # l
    BY <2>1 DEF ProgressInv
  <2>6. l \notin hasZpl
    BY <2>1 DEF ProgressInv
  <2>7. l \in hasZpl' => zpl'[order[l]] = l
    BY <1>2, <2>4, <2>6 DEF TypeOK
  <2>8. \A o \in Others(l) : Held(file, o)'
    BY <1>1, <2>1, <2>3, <2>4, <2>5 DEF BeforeWrite, Held, Others, Undisturbed, TypeOK
  <2>9. BeforeWrite(l)'
    BY <1>1, <2>1, <2>2, <2>3, <2>7, <2>8 DEF BeforeWrite, Kept, Others, Undisturbed
  <2> QED
    BY <1>1, <2>1, <2>2, <2>9 DEF SaveInv
<1>5. CASE ReadHistory(l)
  <2>1. /\ UNCHANGED <<alone, suspect, file, zpl, hasZpl, unlinked, last>>
        /\ Goto(l, "open") /\ pc[l] = "read" /\ Hold(l, Loaded)
    BY <1>5 DEF ReadHistory, ghostVars, diskVars, zplVars
  <2>2. AloneInv' /\ QuietInv' /\ pc'[l] = "open"
    BY <1>1, <2>1, AloneGoesOn
  <2>3. BeforeWrite(l)
    BY <1>3, <2>1
  <2>4. copy'[l] = Loaded
    BY <2>1 DEF Hold, TypeOK
  <2>5. file \in Histories => Loaded = file
    BY HistoriesAssumption DEF Loaded
  <2>6. BeforeWrite(l)'
    BY <1>1, <2>1, <2>2, <2>3, <2>4, <2>5 DEF BeforeWrite, Kept, Held, Others, Undisturbed
  <2> QED
    BY <1>1, <2>1, <2>2, <2>6 DEF SaveInv
<1>6. CASE OpenHistory(l) /\ pc[l] = "open"
  <2>1. /\ UNCHANGED <<alone, suspect, zpl, hasZpl, last>> /\ file' = None
        /\ Goto(l, "write") /\ Hold(l, WithLabel(copy[l], l))
    BY <1>6 DEF OpenHistory, ghostVars, zplVars
  <2>2. AloneInv' /\ QuietInv' /\ pc'[l] = "write"
    BY <1>1, <2>1, AloneGoesOn
  <2>3. BeforeWrite(l)
    BY <1>3, <1>6
  <2>4. copy'[l] = WithLabel(copy[l], l) /\ copy[l] \in Histories
    BY <2>1 DEF Hold, TypeOK
  <2>5. /\ copy'[l].label[order[l]] = l
        /\ order[l] \in copy'[l].path <=> l \in hasZpl
        /\ \A o \in Orders \ {order[l]} :
              copy'[l].label[o] = copy[l].label[o] /\ (o \in copy'[l].path <=> o \in copy[l].path)
    BY <1>2, <2>4 DEF WithLabel, Histories
  <2>6. \A o \in Others(l) : Kept(copy[l], o)' /\ Held(copy[l], o)'
    BY <1>1, <1>6, <2>1, <2>3, <2>5 DEF BeforeWrite, Kept, Held, Others, Undisturbed
  <2>7. InWrite(l)'
    BY <1>1, <2>1, <2>3, <2>5, <2>6 DEF InWrite, BeforeWrite, Others, Undisturbed
  <2> QED
    BY <1>1, <2>1, <2>2, <2>7 DEF SaveInv
<1>7. CASE OpenHistory(l) /\ pc[l] = "reopen"
  <2>1. UNCHANGED <<alone, suspect, zpl, hasZpl, last, copy>> /\ file' = None /\ Goto(l, "rewrite")
    BY <1>7 DEF OpenHistory, ghostVars, zplVars
  <2>2. AloneInv' /\ QuietInv' /\ pc'[l] = "rewrite"
    BY <1>1, <2>1, AloneGoesOn
  <2>3. AfterWrite(l)
    BY <1>3, <1>7
  <2>4. AfterWrite(l)'
    BY <1>1, <1>7, <2>1, <2>2, <2>3 DEF AfterWrite, Kept, Held, Touched, Undisturbed
  <2> QED
    BY <1>1, <2>1, <2>2, <2>4 DEF SaveInv
<1>8. CASE WriteHistory(l)
  <2>1. /\ UNCHANGED <<alone, suspect, zpl, hasZpl>> /\ pc[l] = "write"
        /\ last' = [last EXCEPT ![order[l]] = l] /\ Goto(l, "sweep")
    BY <1>8 DEF WriteHistory, zplVars
  <2>2. AloneInv' /\ QuietInv' /\ pc'[l] = "sweep"
    BY <1>1, <2>1, AloneGoesOn
  <2>3. InWrite(l)
    BY <1>3, <2>1
  <2>4. file' = copy[l] /\ copy[l] \in Histories
    BY <1>8, <2>3 DEF WriteHistory, Dump, InWrite, TypeOK
  <2>5. \A o \in Others(l) : Kept(file, o)' /\ Held(file, o)'
    BY <1>1, <1>2, <2>1, <2>3, <2>4 DEF InWrite, Kept, Held, Others, Undisturbed, TypeOK
  <2>6. Kept(file, order[l])' /\ Held(file, order[l])'
    BY <1>1, <1>2, <2>1, <2>3, <2>4 DEF InWrite, Kept, Held, TypeOK
  <2>7. AfterWrite(l)'
    BY <1>1, <2>1, <2>2, <2>4, <2>5, <2>6 DEF AfterWrite, Touched, Others, Undisturbed
  <2> QED
    BY <1>1, <2>1, <2>2, <2>7 DEF SaveInv
<1>9. CASE Sweep(l)
  <2>1. UNCHANGED <<file, zpl, hasZpl, last>> /\ pc[l] = "sweep"
    BY <1>9 DEF Sweep, diskVars, zplVars
  <2>2. AfterWrite(l)
    BY <1>3, <2>1
  <2>3. file \in Histories /\ \A o \in Touched(l) : Kept(file, o) /\ Held(file, o)
    BY <2>1, <2>2 DEF AfterWrite
  <2>4. \A o \in Touched(l) : Kept(file, o)' /\ Held(file, o)'
    BY <1>1, <2>1, <2>3 DEF Kept, Held
  <2>5. CASE Finish(l)
    <3>1. Goto(l, "done") /\ alone' = {} /\ suspect' = suspect \ {order[l]}
      BY <1>1, <2>5 DEF Finish
    <3>2. \A o \in Undisturbed' : o \in Touched(l)
      BY <3>1 DEF Undisturbed, Touched
    <3> QED
      BY <1>1, <2>1, <2>3, <2>4, <3>1, <3>2, AloneEnds
  <2>6. CASE Hold(l, Loaded) /\ Goto(l, "remove") /\ UNCHANGED <<alone, suspect>>
    <3>1. AloneInv' /\ QuietInv' /\ pc'[l] = "remove"
      BY <1>1, <2>6, AloneGoesOn
    <3>2. copy'[l] = file
      BY <2>3, <2>6, HistoriesAssumption DEF Hold, Loaded, TypeOK
    <3>3. AfterWrite(l)'
      BY <1>1, <2>1, <2>3, <2>4, <2>6, <3>1, <3>2 DEF AfterWrite, Touched, Undisturbed, Kept, Held
    <3> QED
      BY <1>1, <2>6, <3>1, <3>3 DEF SaveInv
  <2> QED
    BY <1>9, <2>5, <2>6 DEF Sweep
<1>10. CASE RemoveExpired(l)
  <2> DEFINE gone == Expired(copy[l])
  <2>1. /\ UNCHANGED <<alone, suspect, file, hasZpl, last>> /\ pc[l] = "remove"
        /\ Goto(l, "reopen") /\ Hold(l, Swept(copy[l]))
        /\ zpl' = [o \in Orders |-> IF o \in gone \cap copy[l].path THEN None ELSE zpl[o]]
    BY <1>10 DEF RemoveExpired, ghostVars
  <2>2. AloneInv' /\ QuietInv' /\ pc'[l] = "reopen"
    BY <1>1, <2>1, AloneGoesOn
  <2>3. AfterWrite(l)
    BY <1>3, <2>1
  <2>4. copy'[l] = Swept(copy[l]) /\ copy[l] \in Histories
    BY <2>1 DEF Hold, TypeOK
  <2>5. \A o \in Touched(l) : /\ Kept(file, o) /\ Held(file, o) /\ o \in Orders
                              /\ Kept(copy[l], o) /\ Held(copy[l], o)
    BY <1>2, <2>1, <2>3 DEF AfterWrite, Touched, Undisturbed
  <2>6. \A o \in Touched(l) : o \in gone => last[o] <= old
    BY <2>5 DEF Expired, Kept
  <2>7. \A o \in Touched(l) : Kept(file, o)' /\ Held(file, o)'
    <3> SUFFICES ASSUME NEW o \in Touched(l) PROVE Kept(file, o)' /\ Held(file, o)'
      OBVIOUS
    <3>1. zpl'[o] \in {zpl[o], None} /\ (o \notin gone => zpl'[o] = zpl[o])
      BY <2>1, <2>5
    <3>2. last[o] # None /\ last[o] > old => o \notin gone
      BY <2>5, <2>6 DEF TypeOK, Labels
    <3> QED
      BY <1>1, <2>1, <2>5, <3>1, <3>2 DEF Kept, Held
  <2>8. \A o \in Touched(l) : Kept(copy[l], o)' /\ Held(copy[l], o)'
    <3> SUFFICES ASSUME NEW o \in Touched(l) PROVE Kept(copy[l], o)' /\ Held(copy[l], o)'
      OBVIOUS
    <3>1. last[o] # None /\ last[o] > old => o \notin gone
      BY <2>5, <2>6 DEF TypeOK, Labels
    <3>2. /\ o \in gone => copy'[l].label[o] = None /\ o \notin copy'[l].path
          /\ o \notin gone => copy'[l].label[o] = copy[l].label[o]
                             /\ (o \in copy'[l].path <=> o \in copy[l].path)
      BY <2>4, <2>5 DEF Swept, Histories
    <3>3. o \notin gone => zpl'[o] = zpl[o]
      BY <2>1, <2>5
    <3>4. CASE o \in gone
      BY <1>1, <2>1, <2>6, <3>1, <3>2, <3>4 DEF Kept, Held
    <3>5. CASE o \notin gone
      BY <1>1, <2>1, <2>5, <3>2, <3>3, <3>5 DEF Kept, Held
    <3> QED
      BY <3>4, <3>5
  <2>9. file' \in Histories
    BY <2>1, <2>3 DEF AfterWrite
  <2>10. AfterWrite(l)'
    BY <1>1, <2>1, <2>2, <2>7, <2>8, <2>9 DEF AfterWrite, Touched, Undisturbed
  <2> QED
    BY <1>1, <2>1, <2>2, <2>10 DEF SaveInv
<1>11. CASE RewriteHistory(l)
  <2>1. UNCHANGED <<zpl, hasZpl, last>> /\ pc[l] = "rewrite"
    BY <1>11 DEF RewriteHistory, zplVars
  <2>2. Goto(l, "done") /\ alone' = {} /\ suspect' = suspect \ {order[l]}
    BY <1>1, <1>11 DEF RewriteHistory, Finish
  <2>3. AfterWrite(l)
    BY <1>3, <2>1
  <2>4. file' = copy[l] /\ copy[l] \in Histories
    BY <1>11, <2>1, <2>3 DEF RewriteHistory, Dump, AfterWrite, TypeOK
  <2>5. \A o \in Touched(l) : Kept(file, o)' /\ Held(file, o)'
    BY <1>1, <2>1, <2>3, <2>4 DEF AfterWrite, Kept, Held
  <2>6. \A o \in Undisturbed' : o \in Touched(l)
    BY <2>2 DEF Undisturbed, Touched
  <2> QED
    BY <1>1, <2>2, <2>4, <2>5, <2>6, AloneEnds
<1>12. CASE BreakOff(l)
  <2>1. UNCHANGED <<zpl, hasZpl, last>> /\ Goto(l, "done") /\ alone' = {}
    BY <1>1, <1>12 DEF BreakOff
  <2>2. CASE pc[l] \in {"write", "rewrite"}
    <3>1. suspect' = Orders
      BY <1>12, <2>2 DEF BreakOff
    <3> QED
      BY <2>1, <3>1, CrowdClaimsNothing
  <2>3. CASE pc[l] \notin {"write", "rewrite"}
    <3>1. suspect' = suspect \cup {order[l]} /\ file' = file
      BY <1>12, <2>3 DEF BreakOff
    <3>2. Undisturbed' = Others(l)
      BY <3>1 DEF Undisturbed, Others
    <3>3. \A o \in Others(l) : file \in Histories /\ Kept(file, o) /\ Held(file, o)
      <4>1. CASE pc[l] \in {"zpl", "read", "open"}
        BY <1>3, <4>1 DEF BeforeWrite, Others
      <4>2. CASE pc[l] \in {"sweep", "remove", "reopen"}
        BY <1>3, <4>2 DEF AfterWrite, Others, Touched
      <4> QED
        BY <1>1, <2>3, <4>1, <4>2 DEF Saving, TypeOK
    <3>4. \A o \in Undisturbed' : file' \in Histories /\ Kept(file, o)' /\ Held(file, o)'
      BY <1>1, <2>1, <3>1, <3>2, <3>3 DEF Kept, Held
    <3> QED
      BY <1>1, <2>1, <3>4, AloneEnds
  <2> QED
    BY <2>2, <2>3
<1> QED
  BY <1>4, <1>5, <1>6, <1>7, <1>8, <1>9, <1>10, <1>11, <1>12 DEF Save, OpenHistory

LEMMA BeginStep ==
  ASSUME TypeOK, TypeOK', SoldInv, AloneInv, QuietInv, ProgressInv, NEW o \in Orders, BeginSave(o)
  PROVE  AloneInv' /\ QuietInv' /\ SaveInv'
<1> USE LabelsAssumption
<1> PICK new \in Labels : new = sold + 1
  BY DEF BeginSave, TypeOK, Labels
<1>1. /\ pc[new] = "unsold" /\ old' = old
      /\ UNCHANGED <<file, hasZpl, unlinked, last>>
      /\ order' = [order EXCEPT ![new] = o]
      /\ \/ zpl' = [zpl EXCEPT ![o] = None] /\ Goto(new, "zpl")
         \/ UNCHANGED zpl /\ Goto(new, "read")
  BY DEF BeginSave, TypeOK, SoldInv, Labels
<1>2. CASE \E l \in Labels : Saving(l)
  BY <1>2, CrowdClaimsNothing DEF BeginSave
<1>3. CASE \A l \in Labels : ~Saving(l)
  <2>1. alone' = {new} /\ suspect' = suspect
    BY <1>3 DEF BeginSave
  <2>2. /\ pc'[new] \in {"zpl", "read"} /\ order'[new] = o
        /\ \A l \in Labels \ {new} : ~Saving(l)'
    BY <1>1, <1>3 DEF Goto, Saving, TypeOK
  <2>3. AloneInv' /\ QuietInv'
    BY <1>1, <2>1, <2>2 DEF AloneInv, QuietInv, Saving
  <2>4. new \notin hasZpl /\ new \notin unlinked
    BY <1>1 DEF ProgressInv
  <2>5. pc'[new] = "zpl" => zpl'[o] = None
    BY <1>1 DEF Goto, TypeOK
  <2>6. \A p \in Undisturbed : file' \in Histories /\ Kept(file, p)'
    BY <1>1, <1>3 DEF QuietInv, Kept
  <2>7. \A p \in Undisturbed \ {o} : zpl'[p] = zpl[p]
    BY <1>1 DEF TypeOK, Undisturbed
  <2>8. \A p \in Undisturbed \ {o} : Held(file, p)'
    BY <1>1, <1>3, <2>7 DEF QuietInv, Held
  <2>9. BeforeWrite(new)'
    BY <1>1, <2>1, <2>2, <2>4, <2>5, <2>6, <2>8 DEF BeforeWrite, Others, Undisturbed
  <2> QED
    BY <2>1, <2>2, <2>3, <2>9 DEF SaveInv
<1> QED
  BY <1>2, <1>3

(* Time only makes more labels expire.                                     *)
LEMMA AgeStep ==
  ASSUME TypeOK, TypeOK', SoldInv, AloneInv, QuietInv, SaveInv, NEW l \in Labels, Age(l)
  PROVE  AloneInv' /\ QuietInv' /\ SaveInv'
<1>1. /\ UNCHANGED <<order, file, zpl, pc, copy, hasZpl, unlinked, alone, last, suspect>>
      /\ old < old' /\ old \in Nat /\ old' \in Nat
  BY LabelsAssumption DEF Age, diskVars, zplVars, ghostVars, TypeOK, Labels
<1>2. \A o \in Orders : last[o] # None => last[o] \in Nat
  BY DEF TypeOK, Labels
<1>3. last' = last /\ hasZpl' = hasZpl /\ zpl' = zpl
  BY <1>1
<1>4. \A h \in Histories, o \in Orders : Kept(h, o) =>
        (h.label[o] # last'[o] => h.label[o] = None /\ last'[o] <= old')
  <2> SUFFICES ASSUME NEW h \in Histories, NEW o \in Orders, Kept(h, o), h.label[o] # last[o]
               PROVE  h.label[o] = None /\ last[o] <= old'
    BY <1>3
  <2>1. h.label[o] = None /\ last[o] <= old
    BY DEF Kept
  <2> QED
    BY <1>1, <1>2, <2>1
<1>5. \A h \in Histories, o \in Orders : Held(h, o) =>
        /\ o \in h.path => zpl'[o] \in {h.label[o], None}
        /\ last'[o] # None /\ last'[o] > old' /\ last'[o] \in hasZpl' =>
             o \in h.path /\ zpl'[o] = last'[o]
  BY <1>1, <1>2, <1>3 DEF Held
<1>6. \A j \in Labels : copy[j] \in Histories
  BY DEF TypeOK
<1>7. \A j \in alone : j \in Labels /\ order[j] \in Orders \cup {None}
  BY DEF TypeOK
<1>8. AloneInv'
  BY <1>1 DEF AloneInv, Saving
<1>9. QuietInv'
  BY <1>1, <1>4, <1>5 DEF QuietInv, Saving, Undisturbed, Kept, Held
<1>10. SaveInv'
  <2> SUFFICES ASSUME NEW j \in alone
               PROVE  /\ pc[j] \in {"zpl", "read", "open"} => BeforeWrite(j)'
                      /\ pc[j] = "write" => InWrite(j)'
                      /\ pc[j] \in {"sweep", "remove", "reopen", "rewrite"} => AfterWrite(j)'
    BY <1>1 DEF SaveInv
  <2>1. CASE pc[j] \in {"zpl", "read", "open"}
    BY <1>1, <1>4, <1>5, <1>6, <1>7, <2>1
       DEF SaveInv, BeforeWrite, Others, Undisturbed, Kept, Held
  <2>2. CASE pc[j] = "write"
    BY <1>1, <1>4, <1>5, <1>6, <1>7, <2>2
       DEF SaveInv, InWrite, Others, Undisturbed, Kept, Held
  <2>3. CASE pc[j] \in {"sweep", "remove", "reopen", "rewrite"}
    <3>1. AfterWrite(j)
      BY <2>3 DEF SaveInv
    <3>2. order[j] \in Orders
      BY <1>7, <2>3 DEF SoldInv, TypeOK
    <3>3. \A o \in Touched(j) : o \in Orders
      BY <3>2 DEF Touched, Undisturbed
    <3>4. \A o \in Touched(j) :
             /\ pc[j] # "rewrite" => Kept(file, o)' /\ Held(file, o)'
             /\ pc[j] # "sweep" => Kept(copy[j], o)' /\ Held(copy[j], o)'
      BY <1>1, <1>4, <1>5, <1>6, <1>7, <3>1, <3>3 DEF AfterWrite, Kept, Held
    <3>5. Touched(j)' = Touched(j)
      BY <1>1 DEF Touched, Undisturbed
    <3>6. AfterWrite(j)'
      BY <1>1, <3>1, <3>4, <3>5 DEF AfterWrite
    <3> QED
      BY <2>3, <3>6
  <2> QED
    BY <2>1, <2>2, <2>3
<1> QED
  BY <1>8, <1>9, <1>10

LEMMA StillStep ==
  ASSUME AloneInv, QuietInv, SaveInv,
         UNCHANGED <<old, order, file, zpl, pc, copy, hasZpl, unlinked, alone, last, suspect>>
  PROVE  AloneInv' /\ QuietInv' /\ SaveInv'
<1>1. AloneInv'
  BY DEF AloneInv, Saving
<1>2. QuietInv'
  BY DEF QuietInv, Saving, Undisturbed, Kept, Held
<1>3. SaveInv'
  BY DEF SaveInv, BeforeWrite, InWrite, AfterWrite, Others, Touched, Undisturbed, Kept, Held
<1> QED
  BY <1>1, <1>2, <1>3

LEMMA ProgressStep ==
  ASSUME TypeOK, SoldInv, ProgressInv, [Next]_vars
  PROVE  ProgressInv'
<1> USE LabelsAssumption DEF ProgressInv
<1>1. ASSUME NEW o \in Orders, BeginSave(o) PROVE ProgressInv'
  <2>1. sold + 1 \in Labels /\ pc[sold + 1] = "unsold"
    BY <1>1 DEF BeginSave, TypeOK, SoldInv, Labels
  <2> QED
    BY <1>1, <2>1 DEF BeginSave, Goto, TypeOK
<1>2. ASSUME NEW l \in Labels, WriteZpl(l) PROVE ProgressInv'
  BY <1>2 DEF WriteZpl, Goto, TypeOK, ghostVars
<1>3. ASSUME NEW l \in Labels, ReadHistory(l) \/ OpenHistory(l) PROVE ProgressInv'
  BY <1>3 DEF ReadHistory, OpenHistory, Goto, TypeOK, zplVars, ghostVars
<1>4. ASSUME NEW l \in Labels, WriteHistory(l) PROVE ProgressInv'
  <2>1. /\ pc[l] = "write" /\ hasZpl' = hasZpl /\ unlinked' = unlinked
        /\ pc' = [pc EXCEPT ![l] = "sweep"] /\ last' = [last EXCEPT ![order[l]] = l]
    BY <1>4 DEF WriteHistory, Goto, zplVars
  <2> QED
    BY <2>1 DEF TypeOK
<1>5. ASSUME NEW l \in Labels, Sweep(l) \/ RewriteHistory(l) \/ BreakOff(l) PROVE ProgressInv'
  <2>1. /\ Saving(l) /\ hasZpl' = hasZpl /\ unlinked' = unlinked /\ last' = last
        /\ \/ pc' = [pc EXCEPT ![l] = "done"]
           \/ pc[l] = "sweep" /\ pc' = [pc EXCEPT ![l] = "remove"]
    BY <1>5 DEF Sweep, RewriteHistory, BreakOff, Finish, Goto, Saving, zplVars
  <2> QED
    BY <2>1 DEF TypeOK, Saving
<1>6. ASSUME NEW l \in Labels, RemoveExpired(l) PROVE ProgressInv'
  BY <1>6 DEF RemoveExpired, Goto, TypeOK, ghostVars
<1>7. ASSUME UNCHANGED <<pc, hasZpl, unlinked, last>> PROVE ProgressInv'
  BY <1>7
<1> QED
  BY <1>1, <1>2, <1>3, <1>4, <1>5, <1>6, <1>7
     DEF Next, Save, ReprintRequest, ReprintZpl, ReprintTracking, ReprintDone, Age,
         vars, diskVars, zplVars, ghostVars

LEMMA CalmStep ==
  ASSUME TypeOK, TypeOK', QuietInv, CalmInv, [Next]_vars
  PROVE  CalmInv'
<1>1. ASSUME NEW o \in Orders, BeginSave(o) PROVE CalmInv'
  BY <1>1 DEF BeginSave, CalmInv, TypeOK
<1>2. ASSUME NEW l \in Labels, Save(l) PROVE CalmInv'
  BY <1>2, SaveIsSaving DEF CalmInv
<1>3. ASSUME NEW o \in Orders, ReprintRequest(o) PROVE CalmInv'
  <2>1. /\ o \in Loaded.path /\ reprint'.stage = "zpl" /\ reprint'.order = o
        /\ reprint'.calm => \A l \in Labels : ~Saving(l)
        /\ pc' = pc /\ file' = file
    BY <1>3 DEF ReprintRequest, TypeOK, diskVars
  <2> QED
    BY <2>1 DEF CalmInv, Saving, Loaded, EmptyHistory
<1>4. ASSUME UNCHANGED <<reprint, pc, file, suspect>> PROVE CalmInv'
  BY <1>4 DEF CalmInv, Saving, Loaded, EmptyHistory
<1>5. CASE ReprintDone
  BY <1>5 DEF ReprintDone, NoReprint, CalmInv
<1>6. CASE ReprintZpl
  <2>1. CASE reprint' = NoReprint
    BY <2>1 DEF NoReprint, CalmInv
  <2>2. CASE zpl[reprint.order] # None
    <3>1. /\ reprint.stage = "zpl" /\ reprint'.stage = "lookup" /\ reprint'.order = reprint.order
          /\ reprint'.zpl = zpl[reprint.order] /\ reprint'.calm = reprint.calm
          /\ reprint.order \in Orders
          /\ UNCHANGED <<pc, file, suspect>>
      BY <1>6, <2>2 DEF ReprintZpl, TypeOK, diskVars, ghostVars
    <3>2. ASSUME reprint.calm, reprint.order \notin suspect
          PROVE  zpl[reprint.order] = Loaded.label[reprint.order]
      <4>1. (\A l \in Labels : ~Saving(l)) /\ reprint.order \in Loaded.path
        BY <3>1, <3>2 DEF CalmInv
      <4>2. file \in Histories /\ Held(file, reprint.order)
        BY <3>1, <3>2, <4>1 DEF QuietInv, Undisturbed
      <4>3. Loaded = file
        BY <4>2, HistoriesAssumption DEF Loaded
      <4> QED
        BY <2>2, <4>1, <4>2, <4>3 DEF Held
    <3>3. reprint.calm => \A l \in Labels : ~Saving(l)
      BY <3>1 DEF CalmInv
    <3> QED
      BY <3>1, <3>2, <3>3 DEF CalmInv, Saving, Loaded, EmptyHistory
  <2> QED
    BY <1>6, <2>1, <2>2 DEF ReprintZpl
<1>7. CASE ReprintTracking
  <2>1. /\ reprint.stage = "lookup" /\ reprint'.stage = "answered"
        /\ reprint'.order = reprint.order /\ reprint'.zpl = reprint.zpl
        /\ reprint'.calm = reprint.calm
        /\ reprint'.tracking = Loaded.label[reprint.order]
        /\ UNCHANGED <<pc, file, suspect>>
    BY <1>7 DEF ReprintTracking, LookupOrder, TypeOK, diskVars, ghostVars
  <2> QED
    BY <2>1 DEF CalmInv, Saving
<1> QED
  BY <1>1, <1>2, <1>3, <1>4, <1>5, <1>6, <1>7 DEF Next, Age, vars, diskVars, ghostVars

LEMMA CacheInvStep ==
  ASSUME TypeOK, TypeOK', SoldInv, CacheInv, [Next]_vars
  PROVE  CacheInv'
<1> USE DEF CacheInv
<1>1. ProgressInv' /\ CalmInv'
  BY ProgressStep, CalmStep
<1>2. ASSUME NEW o \in Orders, BeginSave(o) PROVE AloneInv' /\ QuietInv' /\ SaveInv'
  BY <1>2, BeginStep
<1>3. ASSUME NEW l \in Labels, Save(l) PROVE AloneInv' /\ QuietInv' /\ SaveInv'
  <2>1. CASE l \in alone
    BY <1>3, <2>1, SaveStepAlone
  <2>2. CASE l \notin alone
    <3>1. alone = {} /\ suspect = Orders
      BY <1>3, <2>2, SaveIsSaving, AloneOrSuspect
    <3>2. alone' = {} /\ suspect' = Orders
      BY <1>3, <2>2, <3>1
         DEF Save, WriteZpl, ReadHistory, OpenHistory, WriteHistory, Sweep, RemoveExpired,
             RewriteHistory, BreakOff, Finish, ghostVars, TypeOK
    <3> QED
      BY <3>2, CrowdClaimsNothing
  <2> QED
    BY <2>1, <2>2
<1>4. ASSUME NEW l \in Labels, Age(l) PROVE AloneInv' /\ QuietInv' /\ SaveInv'
  BY <1>4, AgeStep
<1>5. CASE (\E o \in Orders : ReprintRequest(o)) \/ ReprintZpl \/ ReprintTracking \/ ReprintDone
           \/ UNCHANGED vars
  <2>1. UNCHANGED <<old, order, file, zpl, pc, copy, hasZpl, unlinked, alone, last, suspect>>
    BY <1>5 DEF ReprintRequest, ReprintZpl, ReprintTracking, ReprintDone,
                vars, diskVars, zplVars, ghostVars
  <2>2. AloneInv' /\ QuietInv' /\ SaveInv'
    BY <2>1, StillStep
  <2> QED
    BY <1>1, <2>2
<1> QED
  BY <1>1, <1>2, <1>3, <1>4, <1>5 DEF Next

(* What saves leave behind, and what a reprint finds, where no other save  *)
(* overlaps.                                                               *)
LEMMA CacheInvHolds == Spec => []CacheInv
<1>1. Init => CacheInv
  <2> SUFFICES ASSUME Init PROVE CacheInv
    OBVIOUS
  <2>1. file \in Histories /\ \A o \in Orders : Kept(file, o) /\ Held(file, o)
    BY DEF Init, Kept, Held, EmptyHistory, Histories
  <2>2. AloneInv /\ SaveInv /\ QuietInv
    BY <2>1 DEF Init, AloneInv, SaveInv, QuietInv, Saving, Undisturbed
  <2>3. CalmInv /\ ProgressInv
    BY DEF Init, CalmInv, ProgressInv, NoReprint
  <2> QED
    BY <2>2, <2>3 DEF CacheInv
<1>2. TypeOK /\ TypeOK' /\ SoldInv /\ CacheInv /\ [Next]_vars => CacheInv'
  BY CacheInvStep
<1>3. Spec => [](TypeOK /\ SoldInv)
  BY LabelsTypeCorrect
<1> QED
  BY <1>1, <1>2, <1>3, PTL DEF Spec

(* An order that no overlapping or broken-off save has disturbed keeps its *)
(* last label until it expires.                                            *)
THEOREM LatestHolds == Spec => []LatestIsKept
<1>1. TypeOK /\ CacheInv => LatestIsKept
  <2> SUFFICES ASSUME TypeOK, CacheInv, file \in Histories, NEW o \in Orders \ suspect
               PROVE  Kept(file, o)
    BY DEF LatestIsKept, Kept
  <2>1. CASE \A l \in Labels : ~Saving(l)
    BY <2>1 DEF CacheInv, QuietInv, Undisturbed
  <2>2. CASE \E l \in Labels : Saving(l)
    <3>1. PICK l \in Labels : Saving(l)
      BY <2>2
    <3>2. l \in alone
      BY <3>1, AloneOrSuspect DEF CacheInv, TypeOK
    <3>3. CASE pc[l] \in {"zpl", "read", "open"}
      BY <3>2, <3>3 DEF CacheInv, SaveInv, BeforeWrite, Undisturbed
    <3>4. CASE pc[l] \in {"write", "rewrite"}
      BY <3>2, <3>4, HistoriesAssumption DEF CacheInv, SaveInv, InWrite, AfterWrite
    <3>5. CASE pc[l] \in {"sweep", "remove", "reopen"}
      BY <3>2, <3>5 DEF CacheInv, SaveInv, AfterWrite, Touched, Undisturbed
    <3> QED
      BY <3>1, <3>3, <3>4, <3>5 DEF Saving, TypeOK
  <2> QED
    BY <2>1, <2>2
<1> QED
  BY <1>1, LabelsTypeCorrect, CacheInvHolds, PTL

(* Whenever no save runs, the recent label of an undisturbed order is      *)
(* there with its ZPL: record, path and file agree.                        *)
THEOREM RecentHolds == Spec => []RecentIsReprintable
<1>1. TypeOK /\ CacheInv => RecentIsReprintable
  <2> SUFFICES ASSUME TypeOK, CacheInv, \A l \in Labels : ~Saving(l), NEW o \in Orders \ suspect,
                      last[o] # None, last[o] > old, last[o] \in hasZpl
               PROVE  LookupOrder(Loaded, o) = last[o] /\ o \in Loaded.path /\ zpl[o] = last[o]
    BY DEF RecentIsReprintable
  <2>1. file \in Histories /\ Kept(file, o) /\ Held(file, o)
    BY DEF CacheInv, QuietInv, Undisturbed
  <2>2. Loaded = file
    BY <2>1, HistoriesAssumption DEF Loaded
  <2>3. ~(last[o] <= old)
    BY DEF TypeOK, Labels
  <2> QED
    BY <2>1, <2>2, <2>3 DEF Kept, Held, LookupOrder
<1> QED
  BY <1>1, LabelsTypeCorrect, CacheInvHolds, PTL

(* A reprint during which no save runs shows the tracking number of the    *)
(* label it prints.                                                        *)
THEOREM ReprintHolds == Spec => []ReprintMatches
<1>1. CacheInv => ReprintMatches
  BY DEF CacheInv, CalmInv, ReprintMatches
<1> QED
  BY <1>1, CacheInvHolds, PTL
=============================================================================
