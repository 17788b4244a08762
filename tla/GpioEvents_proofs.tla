-------------------------- MODULE GpioEvents_proofs --------------------------
(***************************************************************************)
(* Safety of the gpio_events node, for every set of pins and event types.  *)
(***************************************************************************)
EXTENDS GpioEvents, NaturalOrder, TLAPS

\* A registered pin has a first row in the order of all(): the rows of the pin
\* that are of its least type, and the one of them of the least id.
LEMMA FirstRowExists ==
    ASSUME TypeOK, NEW m \in db
    PROVE  \E r \in db : r.pin = m.pin /\ IsFirst(r)
  <1>. DEFINE rows   == {r \in db : r.pin = m.pin}
              types  == {r.type : r \in rows}
  <1>1. \A r \in db : r.type \in Nat /\ r.id \in Nat
    <2>1. \A r \in Mapping : r.type \in Types /\ r.id \in 1 .. MaxId
      BY DEF Mapping
    <2>2. \A n \in 1 .. MaxId : n \in Nat
      BY PinsAssumption DEF PinsAssumption
    <2>. QED
      BY <2>1, <2>2, PinsAssumption DEF PinsAssumption, TypeOK
  <1>2. PICK t \in types : \A u \in types : t <= u
    <2>1. types \in SUBSET Nat /\ types # {}
      BY <1>1
    <2>. HIDE DEF types
    <2>. QED
      BY <2>1, LeastNatural
  <1>. DEFINE ids == {r.id : r \in {s \in rows : s.type = t}}
  <1>3. PICK i \in ids : \A j \in ids : i <= j
    <2>1. ids \in SUBSET Nat /\ ids # {}
      BY <1>1, <1>2
    <2>. HIDE DEF ids
    <2>. QED
      BY <2>1, LeastNatural
  <1>4. PICK r \in db : r.pin = m.pin /\ r.type = t /\ r.id = i
    BY <1>3
  <1>5. ASSUME NEW s \in db, s.pin = r.pin PROVE Precedes(r, s)
    <2>1. r.type <= s.type
      BY <1>2, <1>4, <1>5
    <2>2. s.type = r.type => r.id <= s.id
      BY <1>3, <1>4, <1>5
    <2>. QED
      BY <2>1, <2>2, <1>1 DEF Precedes
  <1>. QED
    BY <1>4, <1>5 DEF IsFirst

\* Every step keeps every variable in its range, and the ids of the rows and of the
\* rows removed below the next one.
THEOREM TypeCorrect == Spec => []TypeOK
  <1>1. Init => TypeOK
    BY PinsAssumption DEF PinsAssumption, Init, TypeOK, NoDevices
  <1>2. TypeOK /\ [Next]_vars => TypeOK'
    <2>. SUFFICES ASSUME TypeOK, [Next]_vars PROVE TypeOK'
      OBVIOUS
    <2>. USE PinsAssumption DEF PinsAssumption, TypeOK, NoDevices
    <2>1. CASE Start
      BY <2>1 DEF Start
    <2>2. CASE StartRaises
      BY <2>2 DEF StartRaises
    <2>3. CASE Stop
      BY <2>3 DEF Stop, Gone
    <2>4. ASSUME NEW t \in Types, NEW a \in BOOLEAN, OnEvent(t, a) PROVE TypeOK'
      BY <2>4 DEF OnEvent, Mapping
    <2>5. ASSUME NEW t \in Types, NEW p \in Pins, NEW mode \in Modes, Insert(t, p, mode)
          PROVE  /\ db' \subseteq Mapping
                 /\ nextId' \in 1 .. (MaxId + 1) /\ \A m \in db' : m.id < nextId'
                 /\ removed' \subseteq 1 .. (nextId' - 1)
      <3>1. [id |-> nextId, type |-> t, pin |-> p, mode |-> mode] \in Mapping
        BY <2>5 DEF Insert, NewId, Mapping
      <3>2. \A m \in db : m.id \in Nat
        BY DEF Mapping
      <3>. QED
        BY <2>5, <3>1, <3>2 DEF Insert, NewId
    <2>6. ASSUME NEW t \in Types, NEW p \in Pins, NEW mode \in Modes,
                 HandleAdd(t, p, mode) \/ HandleAddRaises(t, p, mode)
          PROVE  TypeOK'
      <3>1. Insert(t, p, mode)
        BY <2>6 DEF HandleAdd, HandleAddRaises
      <3>2. node' \in {"up", "down", "failed"} /\ on' \subseteq Pins
        BY <2>6 DEF HandleAdd, HandleAddRaises, Gone
      <3>3. dev' \in [Pins -> Modes \union {None}]
        BY <2>6 DEF HandleAdd, HandleAddRaises, Gone
      <3>. QED
        BY <3>1, <3>2, <3>3, <2>5
    <2>7. ASSUME NEW m \in db, HandleRemove(m) PROVE TypeOK'
      <3>1. m.id \in 1 .. (nextId - 1)
        BY DEF Mapping
      <3>2. removed' \subseteq 1 .. (nextId' - 1)
        BY <2>7, <3>1 DEF HandleRemove, Delete
      <3>. QED
        BY <2>7, <3>2 DEF HandleRemove, Delete
    <2>8. CASE UNCHANGED vars
      BY <2>8 DEF vars
    <2>. QED
      BY <2>1, <2>2, <2>3, <2>4, <2>6, <2>7, <2>8 DEF Next
  <1>. QED
    BY <1>1, <1>2, PTL DEF Spec

\* An id names one mapping for ever, whatever is added, removed and restarted: it is
\* taken from above all that were given before, and those stay below the next one.
THEOREM IdsAreNeverReused == Spec => []IdIsNeverReused
  <1>1. Init => IdIsNeverReused
    BY DEF Init, IdIsNeverReused
  <1>2. TypeOK /\ IdIsNeverReused /\ [Next]_vars => IdIsNeverReused'
    <2>. SUFFICES ASSUME TypeOK, IdIsNeverReused, [Next]_vars PROVE IdIsNeverReused'
      OBVIOUS
    <2>1. /\ \A m \in db : m.id \in Int /\ m.id < nextId
          /\ \A i \in removed : i < nextId
          /\ nextId \in Int
      BY PinsAssumption DEF PinsAssumption, TypeOK, Mapping
    <2>2. ASSUME NEW t \in Types, NEW p \in Pins, NEW mode \in Modes, Insert(t, p, mode)
          PROVE  IdIsNeverReused'
      BY <2>1, <2>2 DEF Insert, NewId, IdIsNeverReused
    <2>3. ASSUME NEW m \in db, HandleRemove(m) PROVE IdIsNeverReused'
      BY <2>3 DEF HandleRemove, Delete, IdIsNeverReused
    <2>4. ASSUME UNCHANGED <<db, removed>> PROVE IdIsNeverReused'
      BY <2>4 DEF IdIsNeverReused
    <2>. QED
      BY <2>2, <2>3, <2>4
         DEF Next, vars, Start, StartRaises, Stop, OnEvent, HandleAdd, HandleAddRaises
  <1>. QED
    BY <1>1, <1>2, TypeCorrect, PTL DEF Spec

\* A running node drives every registered pin the board has: Start opens the
\* pin of every first row, and a pin is released only with its last row.
THEOREM ClaimedPinsAreDriven == Spec => []ClaimedPinIsDriven
  <1>1. Init => ClaimedPinIsDriven
    BY DEF Init, ClaimedPinIsDriven
  <1>2. TypeOK /\ ClaimedPinIsDriven /\ [Next]_vars => ClaimedPinIsDriven'
    <2>. SUFFICES ASSUME TypeOK, ClaimedPinIsDriven, [Next]_vars, node' = "up",
                         NEW m \in db', m.pin \notin Invalid
                  PROVE  dev'[m.pin] # None
      BY DEF ClaimedPinIsDriven
    <2>1. \A mode \in Modes : mode # None
      BY DEF Modes, None
    <2>2. dev \in [Pins -> Modes \union {None}] /\ \A r \in db : r.pin \in Pins /\ r.mode \in Modes
      BY DEF TypeOK, Mapping
    <2>3. ASSUME node = "up", m \in db PROVE dev[m.pin] # None
      BY <2>3 DEF ClaimedPinIsDriven
    <2>4. CASE Start
      <3>1. m \in db
        BY <2>4 DEF Start
      <3>2. PICK r \in db : r.pin = m.pin /\ IsFirst(r)
        BY <3>1, FirstRowExists
      <3>3. dev'[m.pin] = r.mode
        BY <3>2, <2>4 DEF Start
      <3>. QED
        BY <3>3, <2>1, <2>2
    <2>5. CASE StartRaises \/ Stop
      BY <2>5 DEF StartRaises, Stop, Gone
    <2>6. ASSUME NEW t \in Types, NEW a \in BOOLEAN, OnEvent(t, a) PROVE dev'[m.pin] # None
      <3>1. m \in db /\ node = "up" /\ m.pin \in Pins
        BY <2>6, <2>2 DEF OnEvent
      <3>2. dev'[m.pin] = dev[m.pin] \/ \E r \in db : r.mode = dev'[m.pin]
        BY <2>6, <3>1 DEF OnEvent
      <3>. QED
        BY <3>1, <3>2, <2>1, <2>2, <2>3
    <2>7. ASSUME NEW t \in Types, NEW p \in Pins, NEW mode \in Modes, HandleAdd(t, p, mode)
          PROVE  dev'[m.pin] # None
      <3>1. node = "up" /\ (m \in db \/ m.pin = p)
        BY <2>7 DEF HandleAdd, Insert
      <3>2. dev'[p] # None \/ p \in Invalid
        BY <2>7, <2>1, <2>2 DEF HandleAdd
      <3>3. \A q \in Pins : q # p => dev'[q] = dev[q]
        BY <2>7, <2>2 DEF HandleAdd
      <3>. QED
        BY <3>1, <3>2, <3>3, <2>2, <2>3
    <2>8. ASSUME NEW t \in Types, NEW p \in Pins, NEW mode \in Modes, HandleAddRaises(t, p, mode)
          PROVE  FALSE
      BY <2>8 DEF HandleAddRaises, Gone
    <2>9. ASSUME NEW r \in db, HandleRemove(r) PROVE dev'[m.pin] # None
      <3>1. node = "up" /\ m \in db /\ db' = db \ {r}
        BY <2>9 DEF HandleRemove, Delete
      <3>2. m.pin = r.pin => ClaimedIn(db', r.pin)
        BY DEF ClaimedIn
      <3>3. dev'[m.pin] = dev[m.pin]
        BY <2>9, <3>1, <3>2, <2>2 DEF HandleRemove
      <3>. QED
        BY <3>1, <3>3, <2>3
    <2>10. CASE UNCHANGED vars
      BY <2>10, <2>3 DEF vars
    <2>. QED
      BY <2>4, <2>5, <2>6, <2>7, <2>8, <2>9, <2>10 DEF Next
  <1>. QED
    BY <1>1, <1>2, TypeCorrect, PTL DEF Spec

\* A deleted mapping leaves no output behind that no mapping can turn off.
THEOREM NoOutputIsOrphaned == Spec => []NoOrphanOutput
  <1>1. Init => NoOrphanOutput
    BY DEF Init, NoOrphanOutput, NoDevices
  <1>2. TypeOK /\ NoOrphanOutput /\ [Next]_vars => NoOrphanOutput'
    <2>. SUFFICES ASSUME TypeOK, NoOrphanOutput, [Next]_vars,
                         NEW p \in Pins, dev'[p] # None
                  PROVE  \E r \in db' : r.pin = p
      BY DEF NoOrphanOutput, Claimed, ClaimedIn
    <2>1. dev \in [Pins -> Modes \union {None}]
      BY DEF TypeOK
    <2>2. ASSUME dev[p] # None, db \subseteq db' PROVE \E r \in db' : r.pin = p
      BY <2>2 DEF NoOrphanOutput, Claimed, ClaimedIn
    <2>3. CASE Start
      BY <2>3 DEF Start, Claimed, ClaimedIn
    <2>4. CASE StartRaises
      BY <2>2, <2>4 DEF StartRaises
    <2>5. CASE Stop
      BY <2>5 DEF Stop, Gone, NoDevices
    <2>6. ASSUME NEW t \in Types, NEW a \in BOOLEAN, OnEvent(t, a)
          PROVE  \E r \in db' : r.pin = p
      BY <2>2, <2>6 DEF OnEvent
    <2>7. ASSUME NEW t \in Types, NEW q \in Pins, NEW mode \in Modes, HandleAdd(t, q, mode)
          PROVE  \E r \in db' : r.pin = p
      <3>1. CASE p = q
        <4>1. [id |-> NewId, type |-> t, pin |-> q, mode |-> mode] \in db'
          BY <2>7 DEF HandleAdd, Insert
        <4>. QED
          BY <3>1, <4>1
      <3>2. CASE p # q
        BY <3>2, <2>1, <2>2, <2>7 DEF HandleAdd, Insert
      <3>. QED
        BY <3>1, <3>2
    <2>8. ASSUME NEW t \in Types, NEW q \in Pins, NEW mode \in Modes, HandleAddRaises(t, q, mode)
          PROVE  FALSE
      BY <2>8 DEF HandleAddRaises, Gone, NoDevices
    <2>9. ASSUME NEW m \in db, HandleRemove(m) PROVE \E r \in db' : r.pin = p
      <3>1. CASE ClaimedIn(db', m.pin)
        <4>1. dev[p] # None
          BY <3>1, <2>9 DEF HandleRemove
        <4>2. PICK r \in db : r.pin = p
          BY <4>1 DEF NoOrphanOutput, Claimed, ClaimedIn
        <4>. QED
          BY <3>1, <4>2, <2>9 DEF HandleRemove, Delete, ClaimedIn
      <3>2. CASE ~ClaimedIn(db', m.pin)
        <4>1. p # m.pin /\ dev[p] # None
          BY <3>2, <2>1, <2>9 DEF HandleRemove
        <4>2. PICK r \in db : r.pin = p
          BY <4>1 DEF NoOrphanOutput, Claimed, ClaimedIn
        <4>. QED
          BY <4>1, <4>2, <2>9 DEF HandleRemove, Delete
      <3>. QED
        BY <3>1, <3>2
    <2>10. CASE UNCHANGED vars
      BY <2>2, <2>10 DEF vars
    <2>. QED
      BY <2>3, <2>4, <2>5, <2>6, <2>7, <2>8, <2>9, <2>10 DEF Next
  <1>. QED
    BY <1>1, <1>2, TypeCorrect, PTL DEF Spec

\* Adding or deleting one mapping of a pin does not move the pin for the
\* mappings that still name it: the pin of a running node has its device
\* already, so adding opens nothing, and deleting releases nothing.
THEOREM EditsSpareOthers == Spec => EditSparesOthers
  <1>1. /\ TypeOK /\ ClaimedPinIsDriven
        /\ [Next]_vars
        => [db' # db /\ node' = "up" =>
              \A p \in Pins : Claimed(p) /\ Claimed(p)' => Level(p)' = Level(p)]_vars
    <2>. SUFFICES ASSUME TypeOK, ClaimedPinIsDriven, Next, db' # db, node' = "up",
                         NEW p \in Pins, Claimed(p), Claimed(p)'
                  PROVE  dev'[p] = dev[p] /\ (p \in on' <=> p \in on)
      BY DEF Level
    <2>1. dev \in [Pins -> Modes \union {None}]
      BY DEF TypeOK
    <2>2. PICK m \in db : m.pin = p
      BY DEF Claimed, ClaimedIn
    <2>3. ASSUME NEW t \in Types, NEW q \in Pins, NEW mode \in Modes, HandleAdd(t, q, mode)
          PROVE  dev'[p] = dev[p] /\ on' = on
      <3>1. node = "up" /\ on' = on
        BY <2>3 DEF HandleAdd, Insert
      <3>2. p \in Invalid \/ dev[p] # None
        BY <3>1, <2>2 DEF ClaimedPinIsDriven
      <3>. QED
        BY <3>1, <3>2, <2>1, <2>3 DEF HandleAdd
    <2>4. ASSUME NEW t \in Types, NEW q \in Pins, NEW mode \in Modes, HandleAddRaises(t, q, mode)
          PROVE  FALSE
      BY <2>4 DEF HandleAddRaises, Gone
    <2>5. ASSUME NEW r \in db, HandleRemove(r)
          PROVE  dev'[p] = dev[p] /\ (p \in on' <=> p \in on)
      <3>1. p = r.pin => ClaimedIn(db', r.pin)
        BY DEF Claimed, ClaimedIn
      <3>. QED
        BY <3>1, <2>1, <2>5 DEF HandleRemove
    <2>. QED
      BY <2>3, <2>4, <2>5 DEF Next, Start, StartRaises, Stop, OnEvent
  <1>. QED
    BY <1>1, TypeCorrect, ClaimedPinsAreDriven, PTL DEF Spec, EditSparesOthers
=============================================================================
