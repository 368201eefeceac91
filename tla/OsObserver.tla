----------------------------- MODULE OsObserver -----------------------------
(***************************************************************************)
(* Data items of the operating system: SystemStatusOsObserver keeps who    *)
(* subscribed to which item in two maps that mirror each other             *)
(* (LocUnorderedSetMap), keeps the framework subscribed to what is wanted, *)
(* and passes on what the framework reports (gps/core/                     *)
(* SystemStatusOsObserver.cpp, gps/utils/LocUnorderedSetMap.h).            *)
(*                                                                         *)
(* Every call posts a message to one MsgTask and does nothing else, so     *)
(* that calls take effect in the order of their messages: an action here   *)
(* is the handling of the message.  What the framework reports has its     *)
(* values when it is posted, and waits in the queue.                       *)
(*                                                                         *)
(* Left out: turnOn, turnOff and the backhaul's calls, items that          *)
(* SystemStatus does not keep.                                             *)
(***************************************************************************)
EXTENDS Naturals, Sequences

CONSTANTS
  Observers,   \* clients, IDataItemObserver*
  Items,       \* DataItemId
  Uses,        \* the items each client subscribes to, or updates to
  MaxChanges,  \* bound on the changes of each item's value
  MaxNotes     \* bound on the reports that wait in the queue

ASSUME ObserverBoundsAssumption == MaxChanges \in Nat /\ MaxNotes \in Nat
ASSUME UsesAssumption == Uses \in [Observers -> SUBSET Items]

Unknown == 0
Values == 1..(MaxChanges + 1)

VARIABLES
  toClients,   \* mDataItemToClients, {} for an item without an entry
  toItems,     \* mClientToDataItems, likewise
  cache,       \* mDataItemCache
  subObj,      \* whether mSubscriptionObj is set
  value,       \* the items' values in the operating system
  subscribed,  \* the items the framework was asked to report changes of
  owed,        \* the items it has to report: requested, or changed since
  notes,       \* its reports in the queue: values by item
  view,        \* what each client was notified last
  oneShot,     \* items whose entry was made by requestData
  updated      \* whether updateSubscription was ever used

observerVars == <<toClients, toItems, cache, subObj, value, subscribed, owed,
                  notes, view, oneShot, updated>>
mapVars == <<toClients, toItems>>
osVars == <<value, notes, cache>>

ObserverInit ==
  /\ toClients = [i \in Items |-> {}]
  /\ toItems = [o \in Observers |-> {}]
  /\ cache = [i \in Items |-> Unknown]
  /\ subObj = FALSE
  /\ value = [i \in Items |-> 1]
  /\ subscribed = {} /\ owed = {}
  /\ notes = <<>>
  /\ view = [o \in Observers |-> [i \in Items |-> Unknown]]
  /\ oneShot = {} /\ updated = FALSE

-----------------------------------------------------------------------------
(* LocUnorderedSetMap.                                                     *)

Entries(map) == {k \in DOMAIN map : map[k] # {}}

(* add: vals to the entries of keys; the entries that are new. *)
Added(map, keys, vals) ==
  [k \in DOMAIN map |-> IF k \in keys THEN map[k] \cup vals ELSE map[k]]
NewKeys(map, keys) == keys \ Entries(map)

(* trimOrRemove: vals from the entries of keys; the entries that are gone. *)
Trimmed(map, keys, vals) ==
  [k \in DOMAIN map |-> IF k \in keys THEN map[k] \ vals ELSE map[k]]
GoneKeys(map, keys, vals) ==
  {k \in keys \cap Entries(map) : map[k] \subseteq vals}

(* update: the values of key become vals.  It returns the values that were *)
(* there before and still are, or some of them: removeAndReturnInterset    *)
(* goes on with an iterator to the element it has erased.                  *)
StillThere(map, key, vals) ==
  LET common == map[key] \cap vals IN
  IF common = {} THEN {{}} ELSE SUBSET common \ {{}}

-----------------------------------------------------------------------------
(* SystemStatusOsObserver.                                                 *)

(* Mutant of SendCached: a client that subscribes waits for the next       *)
(* change.                                                                 *)
SendNothing(o, items, known) == UNCHANGED view

(* sendCachedDataItems. *)
SendCached(o, items, known) ==
  view' = [view EXCEPT ![o] =
             [i \in Items |-> IF i \in items /\ known[i] # Unknown
                              THEN known[i] ELSE view[o][i]]]

(* What the framework is asked to subscribe, to request, to unsubscribe.   *)
Framework(sub, req, unsub) ==
  /\ subscribed' = IF subObj THEN (subscribed \cup sub) \ unsub ELSE subscribed
  /\ owed' = IF subObj THEN owed \cup req ELSE owed

(* setSubscriptionObj: what was subscribed before there was a framework is *)
(* subscribed now.                                                         *)
SetSubscriptionObj ==
  /\ subObj' = TRUE
  /\ subscribed' = subscribed \cup Entries(toClients)
  /\ owed' = owed \cup Entries(toClients)
  /\ oneShot' = {}
  /\ UNCHANGED <<mapVars, osVars, view, updated>>

(* subscribe, and requestData, which asks the framework for a report       *)
(* instead.                                                                *)
Subscribe(o, items, request) ==
  LET new == NewKeys(toClients, items) IN
  /\ toClients' = Added(toClients, items, {o})
  /\ toItems' = Added(toItems, {o}, items)
  /\ SendCached(o, items, cache)
  /\ \/ request /\ Framework({}, new, {})
     \/ ~request /\ Framework(new, {}, {})
  /\ oneShot' = IF request THEN oneShot \cup new ELSE oneShot \ new
  /\ UNCHANGED <<osVars, subObj, updated>>

(* updateSubscription: the items are to be all that o is subscribed to.    *)
(* Nobody calls it in this tree; a bound: it is called once.               *)
UpdateSubscription(o, items) ==
  /\ ~updated
  /\ toItems' = [toItems EXCEPT ![o] = items]
  /\ \E returned \in StillThere(toItems, o, items) :
       LET trimmed == Trimmed(toClients, returned, {o})
           new == items \ returned
       IN
       /\ toClients' = Added(trimmed, new, {o})
       /\ SendCached(o, new, cache)
       /\ Framework(NewKeys(trimmed, new), {}, GoneKeys(toClients, returned, {o}))
       /\ oneShot' = oneShot \ NewKeys(trimmed, new)
  /\ updated' = TRUE
  /\ UNCHANGED <<osVars, subObj>>

(* Mutant of DropItems: what one client does not want any more is          *)
(* unsubscribed for all.                                                   *)
DropItemsForAll(o, items) ==
  /\ toClients' = Trimmed(toClients, items, {o})
  /\ Framework({}, {}, items)
  /\ UNCHANGED <<osVars, subObj, view, oneShot, updated>>

(* The client o is taken off the items, and those without clients are      *)
(* unsubscribed.                                                           *)
DropItems(o, items) ==
  /\ toClients' = Trimmed(toClients, items, {o})
  /\ Framework({}, {}, GoneKeys(toClients, items, {o}))
  /\ UNCHANGED <<osVars, subObj, view, oneShot, updated>>

(* Mutant of Unsubscribe: the items of o stay as they are.                 *)
UnsubscribeOneSide(o, items) ==
  /\ DropItems(o, items \cap toItems[o])
  /\ UNCHANGED toItems

(* unsubscribe. *)
Unsubscribe(o, items) ==
  /\ toItems' = Trimmed(toItems, {o}, items)
  /\ DropItems(o, items \cap toItems[o])

(* unsubscribeAll. *)
UnsubscribeAll(o) ==
  /\ toItems[o] # {}
  /\ toItems' = [toItems EXCEPT ![o] = {}]
  /\ DropItems(o, toItems[o])

(* The clients of the items. *)
Recipients(items) == UNION {toClients[i] : i \in items}

(* notify: the items that changed go to their clients. *)
HandleNotify ==
  LET note == Head(notes)
      changed == {i \in DOMAIN note : note[i] # cache[i]}
      told(o) == IF o \in Recipients(changed) THEN toItems[o] \cap changed ELSE {}
  IN
  /\ notes # <<>>
  /\ notes' = Tail(notes)
  /\ cache' = [i \in Items |-> IF i \in changed THEN note[i] ELSE cache[i]]
  /\ view' = [o \in Observers |->
               [i \in Items |-> IF i \in told(o) THEN note[i] ELSE view[o][i]]]
  /\ UNCHANGED <<mapVars, subObj, value, subscribed, owed, oneShot, updated>>

-----------------------------------------------------------------------------
(* The operating system and its framework, as the observer uses them.      *)

ItemChanges(i) ==
  /\ value[i] <= MaxChanges
  /\ value' = [value EXCEPT ![i] = value[i] + 1]
  /\ owed' = IF i \in subscribed THEN owed \cup {i} ELSE owed
  /\ UNCHANGED <<mapVars, cache, subObj, subscribed, notes, view, oneShot, updated>>

FrameworkReports ==
  /\ owed # {} /\ Len(notes) < MaxNotes
  /\ notes' = Append(notes, [i \in owed |-> value[i]])
  /\ owed' = {}
  /\ UNCHANGED <<mapVars, cache, subObj, value, subscribed, view, oneShot, updated>>

SomeItems(o) == SUBSET Uses[o] \ {{}}

ObserverNext ==
  \/ SetSubscriptionObj
  \/ \E o \in Observers : \E items \in SomeItems(o) :
       \/ \E request \in BOOLEAN : Subscribe(o, items, request)
       \/ UpdateSubscription(o, items)
       \/ Unsubscribe(o, items)
  \/ \E o \in Observers : UnsubscribeAll(o)
  \/ HandleNotify
  \/ \E i \in Items : ItemChanges(i)
  \/ FrameworkReports

ObserverSpec == ObserverInit /\ [][ObserverNext]_observerVars

-----------------------------------------------------------------------------
(* Properties.                                                             *)

Notes == UNION {[items -> Values] : items \in SUBSET Items}

ObserverTypeOK ==
  /\ toClients \in [Items -> SUBSET Observers]
  /\ toItems \in [Observers -> SUBSET Items]
  /\ cache \in [Items -> Values \cup {Unknown}]
  /\ value \in [Items -> Values]
  /\ {subObj, updated} \subseteq BOOLEAN
  /\ {subscribed, owed, oneShot} \subseteq SUBSET Items
  /\ notes \in Seq(Notes)
  /\ view \in [Observers -> [Items -> Values \cup {Unknown}]]

(* The two maps mirror each other, whatever clients subscribe, request and *)
(* unsubscribe; an updateSubscription breaks them (see the README).        *)
MapsMirror ==
  ~updated => \A o \in Observers, i \in Items : o \in toClients[i] <=> i \in toItems[o]

(* The framework is subscribed to what clients have subscribed to and to   *)
(* nothing else, also after the last of several clients is gone; except    *)
(* for an item whose first client only requested it.                       *)
FrameworkFollows ==
  subObj => /\ subscribed \subseteq Entries(toClients)
            /\ Entries(toClients) \ oneShot \subseteq subscribed

(* A client has seen the last value that was reported of every item it is  *)
(* subscribed to, also of one that was reported before it subscribed.      *)
SubscribersKnow ==
  ~updated => \A o \in Observers : \A i \in toItems[o] :
    cache[i] # Unknown => view[o][i] = cache[i]
=============================================================================
