-------------------------- MODULE OsObserverProofs --------------------------
(***************************************************************************)
(* Proofs about OsObserver, for any observers, items, uses and bounds.     *)
(*                                                                         *)
(* The maps mirror each other by themselves; what the framework is         *)
(* subscribed to follows the first of them; and the clients' views need    *)
(* the mirror, because notify finds its recipients in the one map and      *)
(* what to tell them in the other.                                         *)
(***************************************************************************)
EXTENDS OsObserver, SequenceTheorems, TLAPS

LEMMA ObserverInitTypes == ObserverInit => ObserverTypeOK
<1> SUFFICES ASSUME ObserverInit PROVE ObserverTypeOK
  OBVIOUS
<1>1. 1 \in Values
  BY ObserverBoundsAssumption DEF Values
<1>2. notes \in Seq(Notes)
  BY DEF ObserverInit
<1>3. /\ toClients \in [Items -> SUBSET Observers]
      /\ toItems \in [Observers -> SUBSET Items]
  BY Zenon DEF ObserverInit
<1>4. /\ cache \in [Items -> Values \cup {Unknown}] /\ value \in [Items -> Values]
      /\ view \in [Observers -> [Items -> Values \cup {Unknown}]]
  BY <1>1 DEF ObserverInit
<1> QED BY <1>2, <1>3, <1>4 DEF ObserverInit, ObserverTypeOK

LEMMA SomeItemsAreItems ==
  ASSUME NEW o \in Observers, NEW items \in SomeItems(o)
  PROVE  items \subseteq Items
BY UsesAssumption DEF SomeItems

(* What sendCachedDataItems leaves a client with.                          *)
LEMMA ViewTypes ==
  ASSUME ObserverTypeOK, NEW o \in Observers, NEW items, SendCached(o, items, cache)
  PROVE  view' \in [Observers -> [Items -> Values \cup {Unknown}]]
BY DEF ObserverTypeOK, SendCached

LEMMA FrameworkTypes ==
  ASSUME ObserverTypeOK, NEW sub \in SUBSET Items, NEW req \in SUBSET Items, NEW unsub,
         Framework(sub, req, unsub)
  PROVE  subscribed' \subseteq Items /\ owed' \subseteq Items
BY DEF ObserverTypeOK, Framework

LEMMA SubscribeTypes ==
  ASSUME ObserverTypeOK, NEW o \in Observers, NEW items \in SUBSET Items,
         NEW request \in BOOLEAN, Subscribe(o, items, request)
  PROVE  ObserverTypeOK'
<1>1. view' \in [Observers -> [Items -> Values \cup {Unknown}]]
  BY ViewTypes DEF Subscribe
<1>2. NewKeys(toClients, items) \subseteq Items
  BY DEF NewKeys
<1>3. subscribed' \subseteq Items /\ owed' \subseteq Items
  BY <1>2, FrameworkTypes DEF Subscribe
<1>4. oneShot' \subseteq Items
  BY <1>2 DEF Subscribe, ObserverTypeOK
<1>5. toClients' \in [Items -> SUBSET Observers] /\ toItems' \in [Observers -> SUBSET Items]
  BY DEF Subscribe, ObserverTypeOK, Added
<1> QED BY <1>1, <1>3, <1>4, <1>5 DEF Subscribe, ObserverTypeOK, osVars

LEMMA UpdateTypes ==
  ASSUME ObserverTypeOK, NEW o \in Observers, NEW items \in SUBSET Items,
         UpdateSubscription(o, items)
  PROVE  ObserverTypeOK'
<1>1. PICK returned \in StillThere(toItems, o, items) :
        /\ toClients' = Added(Trimmed(toClients, returned, {o}), items \ returned, {o})
        /\ SendCached(o, items \ returned, cache)
        /\ Framework(NewKeys(Trimmed(toClients, returned, {o}), items \ returned), {},
                     GoneKeys(toClients, returned, {o}))
        /\ oneShot' = oneShot \ NewKeys(Trimmed(toClients, returned, {o}), items \ returned)
  BY DEF UpdateSubscription
<1>2. view' \in [Observers -> [Items -> Values \cup {Unknown}]]
  BY <1>1, ViewTypes
<1>3. NewKeys(Trimmed(toClients, returned, {o}), items \ returned) \subseteq Items
  BY DEF NewKeys
<1>4. subscribed' \subseteq Items /\ owed' \subseteq Items
  BY <1>1, <1>3, FrameworkTypes
<1>5. toClients' \in [Items -> SUBSET Observers]
  BY <1>1 DEF ObserverTypeOK, Added, Trimmed
<1>6. toItems' \in [Observers -> SUBSET Items] /\ oneShot' \subseteq Items /\ updated' = TRUE
  BY <1>1 DEF ObserverTypeOK, UpdateSubscription
<1> QED BY <1>2, <1>4, <1>5, <1>6 DEF UpdateSubscription, ObserverTypeOK, osVars

LEMMA DropTypes ==
  ASSUME ObserverTypeOK, NEW o \in Observers, NEW items, DropItems(o, items),
         toItems' \in [Observers -> SUBSET Items]
  PROVE  ObserverTypeOK'
<1>1. subscribed' \subseteq Items /\ owed' \subseteq Items
  BY FrameworkTypes DEF DropItems
<1>2. toClients' \in [Items -> SUBSET Observers]
  BY DEF DropItems, ObserverTypeOK, Trimmed
<1> QED BY <1>1, <1>2 DEF DropItems, ObserverTypeOK, osVars

LEMMA ObserverNotifyTypes ==
  ASSUME ObserverTypeOK, HandleNotify
  PROVE  ObserverTypeOK'
<1> DEFINE note == Head(notes)
<1>1. note \in Notes /\ notes' \in Seq(Notes)
  BY HeadTailProperties DEF HandleNotify, ObserverTypeOK
<1>2. PICK items \in SUBSET Items : note \in [items -> Values]
  BY <1>1 DEF Notes
<1>3. \A i \in DOMAIN note : i \in Items /\ note[i] \in Values
  BY <1>2
<1>4. cache' \in [Items -> Values \cup {Unknown}]
  BY <1>3 DEF HandleNotify, ObserverTypeOK
<1>5. view' \in [Observers -> [Items -> Values \cup {Unknown}]]
  BY <1>3 DEF HandleNotify, ObserverTypeOK
<1> QED BY <1>1, <1>4, <1>5 DEF HandleNotify, ObserverTypeOK, mapVars

LEMMA ObserverNextTypes ==
  ASSUME ObserverTypeOK, [ObserverNext]_observerVars
  PROVE  ObserverTypeOK'
<1>1. CASE SetSubscriptionObj
  BY <1>1 DEF SetSubscriptionObj, ObserverTypeOK, Entries, mapVars, osVars
<1>2. ASSUME NEW o \in Observers, NEW items \in SomeItems(o), NEW request \in BOOLEAN,
             Subscribe(o, items, request)
      PROVE  ObserverTypeOK'
  BY <1>2, SomeItemsAreItems, SubscribeTypes
<1>3. ASSUME NEW o \in Observers, NEW items \in SomeItems(o), UpdateSubscription(o, items)
      PROVE  ObserverTypeOK'
  BY <1>3, SomeItemsAreItems, UpdateTypes
<1>4. ASSUME NEW o \in Observers, NEW items \in SomeItems(o), Unsubscribe(o, items)
      PROVE  ObserverTypeOK'
  <2>1. toItems' \in [Observers -> SUBSET Items]
    BY <1>4 DEF Unsubscribe, ObserverTypeOK, Trimmed
  <2> QED BY <1>4, <2>1, DropTypes DEF Unsubscribe
<1>5. ASSUME NEW o \in Observers, UnsubscribeAll(o)
      PROVE  ObserverTypeOK'
  <2>1. toItems' \in [Observers -> SUBSET Items]
    BY <1>5 DEF UnsubscribeAll, ObserverTypeOK
  <2> QED BY <1>5, <2>1, DropTypes DEF UnsubscribeAll
<1>6. CASE HandleNotify
  BY <1>6, ObserverNotifyTypes
<1>7. ASSUME NEW i \in Items, ItemChanges(i)
      PROVE  ObserverTypeOK'
  <2>1. value' \in [Items -> Values]
    BY <1>7, ObserverBoundsAssumption DEF ItemChanges, ObserverTypeOK, Values
  <2> QED BY <1>7, <2>1 DEF ItemChanges, ObserverTypeOK, mapVars
<1>8. CASE FrameworkReports
  <2>1. [i \in owed |-> value[i]] \in Notes
    BY DEF ObserverTypeOK, Notes
  <2>2. notes' \in Seq(Notes)
    BY <1>8, <2>1, AppendProperties DEF FrameworkReports, ObserverTypeOK
  <2> QED BY <1>8, <2>2 DEF FrameworkReports, ObserverTypeOK, mapVars
<1>9. CASE UNCHANGED observerVars
  BY <1>9 DEF observerVars, ObserverTypeOK
<1> QED
  BY <1>1, <1>2, <1>3, <1>4, <1>5, <1>6, <1>7, <1>8, <1>9 DEF ObserverNext

(* The variables keep their types.                                         *)
THEOREM ObserverTypeCorrect == ObserverSpec => []ObserverTypeOK
<1>1. ObserverTypeOK /\ [ObserverNext]_observerVars => ObserverTypeOK'
  BY ObserverNextTypes
<1> QED BY <1>1, ObserverInitTypes, PTL DEF ObserverSpec

-----------------------------------------------------------------------------
(* The two maps.                                                           *)

LEMMA SubscribeMirrors ==
  ASSUME ObserverTypeOK, MapsMirror, NEW o \in Observers, NEW items \in SUBSET Items,
         NEW request \in BOOLEAN, Subscribe(o, items, request)
  PROVE  MapsMirror'
BY DEF ObserverTypeOK, MapsMirror, Subscribe, Added

LEMMA UnsubscribeMirrors ==
  ASSUME ObserverTypeOK, MapsMirror, NEW o \in Observers, NEW items \in SUBSET Items,
         Unsubscribe(o, items)
  PROVE  MapsMirror'
BY DEF ObserverTypeOK, MapsMirror, Unsubscribe, DropItems, Trimmed

LEMMA UnsubscribeAllMirrors ==
  ASSUME ObserverTypeOK, MapsMirror, NEW o \in Observers, UnsubscribeAll(o)
  PROVE  MapsMirror'
BY DEF ObserverTypeOK, MapsMirror, UnsubscribeAll, DropItems, Trimmed

(* A step other than those of the clients leaves the maps alone, and       *)
(* updateSubscription ends what the property promises.                     *)
LEMMA NextMirrors ==
  ASSUME ObserverTypeOK, MapsMirror, [ObserverNext]_observerVars
  PROVE  MapsMirror'
<1>1. ASSUME NEW o \in Observers, NEW items \in SomeItems(o), NEW request \in BOOLEAN,
             Subscribe(o, items, request)
      PROVE  MapsMirror'
  BY <1>1, SomeItemsAreItems, SubscribeMirrors
<1>2. ASSUME NEW o \in Observers, NEW items, UpdateSubscription(o, items)
      PROVE  MapsMirror'
  BY <1>2 DEF UpdateSubscription, MapsMirror
<1>3. ASSUME NEW o \in Observers, NEW items \in SomeItems(o), Unsubscribe(o, items)
      PROVE  MapsMirror'
  BY <1>3, SomeItemsAreItems, UnsubscribeMirrors
<1>4. CASE UNCHANGED <<mapVars, updated>>
  BY <1>4 DEF mapVars, MapsMirror
<1>5. ASSUME NEW i \in Items, ItemChanges(i)
      PROVE  MapsMirror'
  BY <1>4, <1>5 DEF ItemChanges
<1>6. CASE SetSubscriptionObj \/ HandleNotify \/ FrameworkReports \/ UNCHANGED observerVars
  BY <1>4, <1>6 DEF SetSubscriptionObj, HandleNotify, FrameworkReports, observerVars, mapVars
<1> QED BY <1>1, <1>2, <1>3, <1>5, <1>6, UnsubscribeAllMirrors DEF ObserverNext

-----------------------------------------------------------------------------
(* What the framework is subscribed to.                                    *)

(* One client is taken off some items, and put on others.                  *)
LEMMA EntriesChange ==
  ASSUME NEW map \in [Items -> SUBSET Observers], NEW o \in Observers,
         NEW off \in SUBSET Items, NEW on \in SUBSET Items
  PROVE  /\ Trimmed(map, off, {o}) \in [Items -> SUBSET Observers]
         /\ Added(map, on, {o}) \in [Items -> SUBSET Observers]
         /\ Entries(Trimmed(map, off, {o})) = Entries(map) \ GoneKeys(map, off, {o})
         /\ Entries(Added(map, on, {o})) = Entries(map) \cup on
<1>1. /\ Trimmed(map, off, {o}) \in [Items -> SUBSET Observers]
      /\ Added(map, on, {o}) \in [Items -> SUBSET Observers]
  BY DEF Trimmed, Added
<1>2. ASSUME NEW k \in Items
      PROVE  /\ Trimmed(map, off, {o})[k] # {} <=>
                  map[k] # {} /\ ~(k \in off /\ map[k] \subseteq {o})
             /\ Added(map, on, {o})[k] # {} <=> map[k] # {} \/ k \in on
  BY DEF Trimmed, Added
<1> QED BY <1>1, <1>2 DEF Entries, GoneKeys

LEMMA AddedEntries ==
  ASSUME NEW map \in [Items -> SUBSET Observers], NEW o \in Observers,
         NEW on \in SUBSET Items
  PROVE  Entries(Added(map, on, {o})) = Entries(map) \cup on
<1> DEFINE more == Added(map, on, {o})
<1>1. /\ DOMAIN more = Items
      /\ \A k \in Items : more[k] # {} <=> map[k] # {} \/ k \in on
  BY DEF Added
<1> HIDE DEF more
<1>2. Entries(more) \subseteq Entries(map) \cup on
  BY <1>1 DEF Entries
<1>3. Entries(map) \cup on \subseteq Entries(more)
  BY <1>1 DEF Entries
<1> QED BY <1>2, <1>3 DEF more

LEMMA SubscribeFollows ==
  ASSUME ObserverTypeOK, FrameworkFollows, NEW o \in Observers,
         NEW items \in SUBSET Items, NEW request \in BOOLEAN, Subscribe(o, items, request)
  PROVE  FrameworkFollows'
<1>1. Entries(toClients') = Entries(toClients) \cup items
  <2>1. toClients \in [Items -> SUBSET Observers] /\ toClients' = Added(toClients, items, {o})
    BY DEF ObserverTypeOK, Subscribe
  <2> QED BY <2>1, AddedEntries
<1>2. Entries(toClients)' = Entries(toClients')
  BY DEF Entries
<1> QED
  BY <1>1, <1>2 DEF FrameworkFollows, Subscribe, Framework, NewKeys

LEMMA DropFollows ==
  ASSUME ObserverTypeOK, FrameworkFollows, NEW o \in Observers,
         NEW items \in SUBSET Items, DropItems(o, items)
  PROVE  FrameworkFollows'
<1>1. Entries(toClients') = Entries(toClients) \ GoneKeys(toClients, items, {o})
  BY EntriesChange DEF ObserverTypeOK, DropItems
<1>2. Entries(toClients)' = Entries(toClients')
  BY DEF Entries
<1> QED
  BY <1>1, <1>2 DEF FrameworkFollows, DropItems, Framework

LEMMA UpdateFollows ==
  ASSUME ObserverTypeOK, FrameworkFollows, NEW o \in Observers,
         NEW items \in SUBSET Items, UpdateSubscription(o, items)
  PROVE  FrameworkFollows'
<1>1. PICK returned \in StillThere(toItems, o, items) :
        /\ toClients' = Added(Trimmed(toClients, returned, {o}), items \ returned, {o})
        /\ Framework(NewKeys(Trimmed(toClients, returned, {o}), items \ returned), {},
                     GoneKeys(toClients, returned, {o}))
        /\ oneShot' = oneShot \ NewKeys(Trimmed(toClients, returned, {o}), items \ returned)
  BY DEF UpdateSubscription
<1> DEFINE new == items \ returned
           gone == GoneKeys(toClients, returned, {o})
<1>2. returned \subseteq Items
  BY DEF StillThere
<1>3. Entries(Trimmed(toClients, returned, {o})) = Entries(toClients) \ gone
  BY <1>2, EntriesChange DEF ObserverTypeOK
<1>4. Entries(toClients') = (Entries(toClients) \ gone) \cup new
  <2> DEFINE trimmed == Trimmed(toClients, returned, {o})
  <2>1. trimmed \in [Items -> SUBSET Observers]
    BY <1>2, EntriesChange DEF ObserverTypeOK
  <2>2. new \in SUBSET Items
    OBVIOUS
  <2> HIDE DEF trimmed, new
  <2>3. Entries(Added(trimmed, new, {o})) = Entries(trimmed) \cup new
    BY <2>1, <2>2, AddedEntries
  <2> QED BY <1>1, <1>3, <2>3 DEF trimmed, new
<1>5. Entries(toClients)' = Entries(toClients')
  BY DEF Entries
<1>6. gone \cap new = {}
  BY DEF GoneKeys
<1>7. subObj' = subObj
  BY DEF UpdateSubscription
<1> HIDE DEF gone
<1> QED
  BY <1>1, <1>3, <1>4, <1>5, <1>6, <1>7 DEF FrameworkFollows, Framework, NewKeys, gone

(* There is nothing subscribed before there is a framework.                *)
NothingBefore == ~subObj => subscribed = {}

LEMMA NextFollows ==
  ASSUME ObserverTypeOK, NothingBefore, FrameworkFollows, [ObserverNext]_observerVars
  PROVE  FrameworkFollows' /\ NothingBefore'
<1>1. NothingBefore'
  <2>1. CASE SetSubscriptionObj
    BY <2>1 DEF NothingBefore, SetSubscriptionObj
  <2>2. ASSUME NEW sub, NEW req, NEW unsub, Framework(sub, req, unsub), UNCHANGED subObj
        PROVE  NothingBefore'
    BY <2>2 DEF NothingBefore, Framework
  <2>3. ASSUME NEW o, NEW items, NEW request, Subscribe(o, items, request)
        PROVE  NothingBefore'
    BY <2>2, <2>3 DEF Subscribe
  <2>4. ASSUME NEW o, NEW items, UpdateSubscription(o, items)
        PROVE  NothingBefore'
    BY <2>2, <2>4 DEF UpdateSubscription
  <2>5. ASSUME NEW o, NEW items, DropItems(o, items)
        PROVE  NothingBefore'
    BY <2>2, <2>5 DEF DropItems
  <2>6. CASE UNCHANGED <<subObj, subscribed>>
    BY <2>6 DEF NothingBefore
  <2>7. ASSUME NEW i, ItemChanges(i)
        PROVE  NothingBefore'
    BY <2>6, <2>7 DEF ItemChanges
  <2>8. CASE HandleNotify
    BY <2>6, <2>8 DEF HandleNotify
  <2>9. CASE FrameworkReports \/ UNCHANGED observerVars
    BY <2>6, <2>9 DEF FrameworkReports, observerVars
  <2> QED
    BY <2>1, <2>3, <2>4, <2>5, <2>7, <2>8, <2>9
    DEF ObserverNext, Unsubscribe, UnsubscribeAll
<1>2. CASE SetSubscriptionObj
  <2>1. Entries(toClients)' = Entries(toClients)
    BY <1>2 DEF SetSubscriptionObj, mapVars, Entries
  <2>2. subscribed \subseteq Entries(toClients)
    <3>1. CASE subObj
      BY <3>1 DEF FrameworkFollows
    <3>2. CASE ~subObj
      BY <3>2 DEF NothingBefore
    <3> QED BY <3>1, <3>2
  <2>3. subscribed' = Entries(toClients)
    BY <1>2, <2>2 DEF SetSubscriptionObj
  <2> QED BY <1>1, <2>1, <2>3 DEF FrameworkFollows
<1>3. ASSUME NEW o \in Observers, NEW items \in SomeItems(o), NEW request \in BOOLEAN,
             Subscribe(o, items, request)
      PROVE  FrameworkFollows'
  BY <1>3, SomeItemsAreItems, SubscribeFollows
<1>4. ASSUME NEW o \in Observers, NEW items \in SomeItems(o), UpdateSubscription(o, items)
      PROVE  FrameworkFollows'
  BY <1>4, SomeItemsAreItems, UpdateFollows
<1>5. ASSUME NEW o \in Observers, NEW items \in SomeItems(o), Unsubscribe(o, items)
      PROVE  FrameworkFollows'
  BY <1>5, SomeItemsAreItems, DropFollows DEF Unsubscribe, ObserverTypeOK
<1>6. ASSUME NEW o \in Observers, UnsubscribeAll(o)
      PROVE  FrameworkFollows'
  BY <1>6, DropFollows DEF UnsubscribeAll, ObserverTypeOK
<1>7. ASSUME UNCHANGED <<toClients, subObj, subscribed, oneShot>>
      PROVE  FrameworkFollows'
  BY <1>7 DEF FrameworkFollows, Entries
<1>8. ASSUME NEW i \in Items, ItemChanges(i)
      PROVE  FrameworkFollows'
  BY <1>7, <1>8 DEF ItemChanges, mapVars
<1>9. CASE HandleNotify
  BY <1>1, <1>7, <1>9 DEF HandleNotify, mapVars
<1>10. CASE FrameworkReports \/ UNCHANGED observerVars
  BY <1>1, <1>7, <1>10 DEF FrameworkReports, observerVars, mapVars
<1> QED
  BY <1>1, <1>2, <1>3, <1>4, <1>5, <1>6, <1>8, <1>9, <1>10 DEF ObserverNext

-----------------------------------------------------------------------------
(* What the clients know.                                                  *)

LEMMA SubscribeTells ==
  ASSUME ObserverTypeOK, SubscribersKnow, NEW o \in Observers,
         NEW items \in SUBSET Items, NEW request \in BOOLEAN, Subscribe(o, items, request)
  PROVE  SubscribersKnow'
<1> SUFFICES ASSUME ~updated, NEW p \in Observers, NEW i \in toItems'[p], cache[i] # Unknown
             PROVE  view'[p][i] = cache[i]
  BY DEF SubscribersKnow, Subscribe, osVars
<1>1. i \in toItems[p] \/ (p = o /\ i \in items)
  BY DEF ObserverTypeOK, Subscribe, Added
<1>2. i \in Items
  BY <1>1 DEF ObserverTypeOK
<1>3. i \in toItems[p] => view[p][i] = cache[i]
  BY DEF SubscribersKnow
<1> QED BY <1>1, <1>2, <1>3 DEF ObserverTypeOK, Subscribe, SendCached

(* notify finds a client of an item that changed in the one map, and the   *)
(* item in the other.                                                      *)
LEMMA NotifyTells ==
  ASSUME ObserverTypeOK, MapsMirror, SubscribersKnow, HandleNotify
  PROVE  SubscribersKnow'
<1> DEFINE note == Head(notes)
           changed == {i \in DOMAIN note : note[i] # cache[i]}
<1> SUFFICES ASSUME ~updated, NEW o \in Observers, NEW i \in toItems[o], cache'[i] # Unknown
             PROVE  view'[o][i] = cache'[i]
  BY DEF SubscribersKnow, HandleNotify, mapVars
<1>1. i \in Items /\ o \in toClients[i]
  BY DEF ObserverTypeOK, MapsMirror
<1>2. cache'[i] = IF i \in changed THEN note[i] ELSE cache[i]
  BY <1>1 DEF HandleNotify
<1>3. view'[o][i] = IF o \in Recipients(changed) /\ i \in toItems[o] \cap changed
                    THEN note[i] ELSE view[o][i]
  BY <1>1 DEF HandleNotify
<1>4. i \in changed => o \in Recipients(changed)
  BY <1>1 DEF Recipients
<1> QED BY <1>1, <1>2, <1>3, <1>4 DEF SubscribersKnow

LEMMA NextTells ==
  ASSUME ObserverTypeOK, MapsMirror, SubscribersKnow, [ObserverNext]_observerVars
  PROVE  SubscribersKnow'
<1>1. ASSUME NEW o \in Observers, NEW items \in SomeItems(o), NEW request \in BOOLEAN,
             Subscribe(o, items, request)
      PROVE  SubscribersKnow'
  BY <1>1, SomeItemsAreItems, SubscribeTells
<1>2. ASSUME NEW o \in Observers, NEW items, UpdateSubscription(o, items)
      PROVE  SubscribersKnow'
  BY <1>2 DEF UpdateSubscription, SubscribersKnow
<1>3. ASSUME UNCHANGED <<cache, view, updated>>,
             \A o \in Observers : toItems'[o] \subseteq toItems[o]
      PROVE  SubscribersKnow'
  BY <1>3 DEF SubscribersKnow
<1>4. ASSUME NEW o \in Observers, NEW items, Unsubscribe(o, items)
      PROVE  SubscribersKnow'
  BY <1>3, <1>4 DEF Unsubscribe, DropItems, osVars, Trimmed, ObserverTypeOK
<1>5. ASSUME NEW o \in Observers, UnsubscribeAll(o)
      PROVE  SubscribersKnow'
  BY <1>3, <1>5 DEF UnsubscribeAll, DropItems, osVars, ObserverTypeOK
<1>6. ASSUME NEW i \in Items, ItemChanges(i)
      PROVE  SubscribersKnow'
  BY <1>3, <1>6 DEF ItemChanges, mapVars
<1>7. CASE SetSubscriptionObj \/ FrameworkReports \/ UNCHANGED observerVars
  BY <1>3, <1>7 DEF SetSubscriptionObj, FrameworkReports, observerVars, mapVars, osVars
<1> QED
  BY <1>1, <1>2, <1>4, <1>5, <1>6, <1>7, NotifyTells DEF ObserverNext

-----------------------------------------------------------------------------
(* Together they are inductive.                                            *)

ObserverInv ==
  ObserverTypeOK /\ MapsMirror /\ NothingBefore /\ FrameworkFollows /\ SubscribersKnow

LEMMA ObserverInitInv == ObserverInit => ObserverInv
BY ObserverInitTypes
DEF ObserverInit, ObserverInv, MapsMirror, NothingBefore, FrameworkFollows, SubscribersKnow

THEOREM ObserverInvHolds == ObserverSpec => []ObserverInv
<1>1. ObserverInv /\ [ObserverNext]_observerVars => ObserverInv'
  BY ObserverNextTypes, NextMirrors, NextFollows, NextTells DEF ObserverInv
<1> QED BY <1>1, ObserverInitInv, PTL DEF ObserverSpec

(* The maps from items to clients and back mirror each other, whatever the *)
(* clients subscribe, request and unsubscribe, until an updateSubscription.*)
THEOREM MapsAreMirrored == ObserverSpec => []MapsMirror
BY ObserverInvHolds, PTL DEF ObserverInv

(* The framework is subscribed to what the clients have subscribed to and  *)
(* to nothing else, for any number of clients of an item.                  *)
THEOREM FrameworkIsSubscribed == ObserverSpec => []FrameworkFollows
BY ObserverInvHolds, PTL DEF ObserverInv

(* A client has seen the last value of every item it is subscribed to.     *)
THEOREM SubscribersAreTold == ObserverSpec => []SubscribersKnow
BY ObserverInvHolds, PTL DEF ObserverInv
=============================================================================
