----------------------------- MODULE GpioEvents -----------------------------
(***************************************************************************)
(* The gpio_events node: mappings from event types to output pins, kept in *)
(* a database that survives the node, and the output devices the node      *)
(* holds for them.                                                         *)
(*                                                                         *)
(* The node has one thread, so a callback is one step.  A pin has one      *)
(* device, shared by every mapping that names it, with the mode of the     *)
(* mapping that opened it.  gpiozero is external: opening a pin succeeds,  *)
(* or raises a ValueError (PinInvalidPin, for a pin the board lacks), or   *)
(* raises something else (the backend's error for a line in use).          *)
(***************************************************************************)
EXTENDS Naturals, FiniteSets

CONSTANTS
    Types,      \* the event types, as numbers in the order of their names
    Pins,       \* the pin numbers an operator may register
    Invalid,    \* those the board lacks
    Contended,  \* those another process may hold
    MaxId       \* bound: mappings are added MaxId times

ASSUME PinsAssumption ==
    /\ Types \subseteq Nat
    /\ Invalid \subseteq Pins /\ Contended \subseteq Pins \ Invalid
    /\ MaxId \in Nat

VARIABLES
    db,      \* the rows of gpio_mappings
    nextId,  \* sqlite_sequence: the largest id given so far, plus 1
    node,    \* up, down, or failed when its last start raised
    dev,     \* _devices: the mode of the device of a pin, or none
    on,      \* the devices that are on
    removed  \* history: the ids of the mappings removed

vars == <<db, nextId, node, dev, on, removed>>

Modes   == {"trigger_high", "trigger_low"}
None    == "none"
Mapping == [id : 1 .. MaxId, type : Types, pin : Pins, mode : Modes]

TypeOK ==
    /\ db \subseteq Mapping
    /\ nextId \in 1 .. (MaxId + 1) /\ \A m \in db : m.id < nextId
    /\ removed \subseteq 1 .. (nextId - 1)
    /\ node \in {"up", "down", "failed"}
    /\ dev \in [Pins -> Modes \union {None}]
    /\ on \subseteq Pins

\* pin_still_claimed, on the rows d.
ClaimedIn(d, p) == \E m \in d : m.pin = p
Claimed(p)      == ClaimedIn(db, p)

\* The level of the line: gpiozero translates the polarity.
Level(p) ==
    CASE dev[p] = None -> "float"
      [] dev[p] # None /\ (p \in on <=> dev[p] = "trigger_high") -> "high"
      [] OTHER -> "low"

NoDevices == [p \in Pins |-> None]

Init ==
    /\ db = {} /\ nextId = 1
    /\ node = "down" /\ dev = NoDevices /\ on = {}
    /\ removed = {}

(***************************************************************************)
(* Start and stop.  __init__ opens the pin of every row in the order of    *)
(* all(), ORDER BY event_type, pin; what a pin raises leaves __init__.     *)
(***************************************************************************)
\* Rows of the same type come in the order of their ids.
Precedes(r, s) == r.type < s.type \/ (r.type = s.type /\ r.id <= s.id)
IsFirst(r)     == \A s \in db : s.pin = r.pin => Precedes(r, s)

Start ==
    /\ node # "up"
    /\ \A p \in Invalid : ~Claimed(p)
    /\ dev' \in [Pins -> Modes \union {None}]
    /\ \A p \in Pins : ~Claimed(p) => dev'[p] = None
    /\ \A m \in db : IsFirst(m) => dev'[m.pin] = m.mode
    /\ node' = "up"
    /\ UNCHANGED <<db, nextId, on, removed>>

StartRaises ==
    /\ node = "down"
    /\ \E p \in Invalid \union Contended : Claimed(p)
    /\ node' = "failed"
    /\ UNCHANGED <<db, nextId, dev, on, removed>>

\* destroy_node(), or the end of the process, closes every device.
Gone ==
    /\ node' = "down" /\ dev' = NoDevices /\ on' = {}

Stop ==
    /\ node = "up"
    /\ Gone
    /\ UNCHANGED <<db, nextId, removed>>

(***************************************************************************)
(* _on_event.  A pin that cannot be opened does not block the others.      *)
(***************************************************************************)
OnEvent(type, activate) ==
    /\ node = "up"
    /\ LET rows   == {m \in db : m.type = type}
           missing == {m.pin : m \in {r \in rows : dev[r.pin] = None}} \ Invalid
           driven(d) == {p \in {m.pin : m \in rows} : d[p] # None}
       IN \E opened \in SUBSET missing :
            /\ dev' \in [Pins -> Modes \union {None}]
            /\ \A p \in Pins :
                 IF p \in opened
                 THEN \E m \in rows : m.pin = p /\ m.mode = dev'[p]
                 ELSE dev'[p] = dev[p]
            /\ on' = IF activate THEN on \union driven(dev') ELSE on \ driven(dev')
    /\ UNCHANGED <<db, nextId, node, removed>>

(***************************************************************************)
(* _on_config.  The row is committed before the pin is opened, and stays   *)
(* when that raises: a ValueError is logged, anything else leaves spin().  *)
(***************************************************************************)
\* Mutant: without AUTOINCREMENT, one more than the largest id in the table.
NewIdOfRows == CHOOSE i \in 1 .. (MaxId + 1) :
                   /\ \A m \in db : m.id < i
                   /\ i = 1 \/ \E m \in db : m.id = i - 1

\* With AUTOINCREMENT, one more than the largest id the table ever had.
NewId == nextId

Insert(type, pin, mode) ==
    /\ node = "up" /\ NewId <= MaxId
    /\ db' = db \union {[id |-> NewId, type |-> type, pin |-> pin, mode |-> mode]}
    /\ nextId' = NewId + 1
    /\ UNCHANGED removed

\* Mutant: the pin is opened at the first event, not now.
AddOpensLater(type, pin, mode) ==
    /\ Insert(type, pin, mode)
    /\ UNCHANGED <<node, dev, on>>

HandleAdd(type, pin, mode) ==
    /\ Insert(type, pin, mode)
    /\ dev' = IF dev[pin] = None /\ pin \notin Invalid
              THEN [dev EXCEPT ![pin] = mode] ELSE dev
    /\ UNCHANGED <<node, on>>

HandleAddRaises(type, pin, mode) ==
    /\ pin \in Contended /\ dev[pin] = None
    /\ Insert(type, pin, mode)
    /\ Gone

Delete(m) ==
    /\ node = "up"
    /\ db' = db \ {m} /\ removed' = removed \union {m.id}
    /\ UNCHANGED <<nextId, node>>

\* Mutants: the pin is released without asking the database; the database is
\* asked while the row is still there.
RemoveReleasesAlways(m) ==
    /\ Delete(m)
    /\ dev' = [dev EXCEPT ![m.pin] = None] /\ on' = on \ {m.pin}
RemoveReleasesFirst(m) ==
    /\ Delete(m)
    /\ UNCHANGED <<dev, on>>

\* A row of another id is not found: a warning and no change.
HandleRemove(m) ==
    /\ Delete(m)
    /\ IF ClaimedIn(db', m.pin)
         THEN UNCHANGED <<dev, on>>
         ELSE dev' = [dev EXCEPT ![m.pin] = None] /\ on' = on \ {m.pin}

Next ==
    \/ Start \/ StartRaises \/ Stop
    \/ \E t \in Types, a \in BOOLEAN : OnEvent(t, a)
    \/ \E t \in Types, p \in Pins, mode \in Modes :
         HandleAdd(t, p, mode) \/ HandleAddRaises(t, p, mode)
    \/ \E m \in db : HandleRemove(m)

Spec == Init /\ [][Next]_vars
-----------------------------------------------------------------------------
(***************************************************************************)
(* Properties.                                                             *)
(***************************************************************************)

\* An id names one mapping for ever: a removal that comes late, or twice, over the
\* command topic never deletes a mapping that was added since.
IdIsNeverReused ==
    /\ \A r, s \in db : r.id = s.id => r = s
    /\ \A r \in db : r.id \notin removed

\* A running node drives every registered pin the board has: none floats until
\* its first event, whatever was added, removed, refused or restarted.
ClaimedPinIsDriven ==
    node = "up" => \A m \in db : m.pin \in Invalid \/ dev[m.pin] # None

\* A deleted mapping leaves no output behind that no mapping can turn off.
NoOrphanOutput == \A p \in Pins : dev[p] # None => Claimed(p)

\* Adding or deleting one mapping of a pin does not move the pin for the
\* mappings that still name it.
EditSparesOthers ==
    [][db' # db /\ node' = "up" =>
         \A p \in Pins : Claimed(p) /\ Claimed(p)' => Level(p)' = Level(p)]_vars

\* A bad pin number costs its own mapping only: the node starts with it.
BadPinIsContained == node # "failed"
=============================================================================
