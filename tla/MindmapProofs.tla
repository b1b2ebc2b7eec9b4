---------------------------- MODULE MindmapProofs ----------------------------
(* Proofs about Mindmap for every value of its constants: type correctness,  *)
(* and, for the overlaps each theorem names, that the write counter covers   *)
(* what no review returned, a cursor what its holder was shown, and that no  *)
(* word of the owner is buried.                                              *)
EXTENDS Mindmap, FiniteSetTheorems, WellFoundedInduction, TLAPS

----------------------------------------------------------------------------
(* Types, and what a call under way holds.                                   *)

PCs == {"idle", "checked", "promoted", "begun", "written", "flag", "head", "fetch", "touch", "reset"}

TxType == [pc : PCs, op : OpNames \cup {"none"}, map : Ids \cup {None}, seed : Seeds \cup {None},
           node : Ids \cup {None}, question : Ids \cup {None}, party : Parties \cup {"null"},
           turn : Parties \cup {"null"}, status : AnyStatus, at : Nat, event : Nat, cursor : Nat, ids : SUBSET Ids,
           shown : SUBSET Nat]

Writes == {"write_owner", "write_model"}

\* Ids are drawn in order; a map's root is one of its nodes.
Tables ==
    /\ clock \in Nat /\ nextId \in Nat \ {0} /\ nextEvent \in Nat \ {0}
    /\ tx \in [Clients -> TxType]
    /\ told \in [Clients -> SUBSET Nat]
    /\ \A n \in DOMAIN member : n < nextId
    /\ DOMAIN maps \subseteq DOMAIN member
    /\ \A e \in events : e.node # None => e.node \in DOMAIN member
    /\ promoted \in [Ids -> Nat]

\* The state of a call fits its operation.
PcFits(t) ==
    /\ t.pc \in {"checked", "promoted"} => t.op \in Writes \cup {"open", "answer", "close"}
    /\ t.pc \in {"begun", "written"} => t.op \in Writes \cup {"open", "answer", "close", "resolve", "link"}
    /\ t.pc = "flag" => t.op \in Writes
    /\ t.pc \in {"head", "fetch", "touch"} => t.op \in Reads
    /\ t.pc = "reset" => t.op = "review"

\* What its arguments are.
ArgsFit(t) ==
    /\ t.op \in Ops
    /\ t.op # "open" => t.map \in DOMAIN maps
    /\ t.op \in Writes \cup {"open"} => t.question = None /\ t.status = "open"
    /\ t.op = "open" => t.seed \in Seeds
    /\ t.op = "answer" => /\ t.question \in DOMAIN member /\ member[t.question].map = t.map
                          /\ t.status \in {"open", "resolved"}
    /\ t.op \in {"resolve", "link"} => t.node \in DOMAIN member
    /\ t.op = "resolve" => member[t.node].map = t.map /\ t.status \in {"resolved", "dropped"}
    /\ t.op = "close" => t.node = None

\* What its transaction has drawn and collected.
DrawnFits(t) ==
    /\ t.pc \in {"begun", "written", "fetch", "head", "touch"} => t.at \in 1..clock
    /\ t.pc = "written" => t.event \in 1..nextEvent - 1
    /\ t.pc = "written" /\ Adds(t.op) =>
          /\ t.node \in Ids /\ t.node < nextId /\ t.node \notin DOMAIN member
    /\ t.pc = "written" /\ t.op = "open" => t.map = t.node
    /\ t.pc = "touch" => t.shown \subseteq {e.id : e \in events}
    /\ t.pc = "reset" => t.ids \subseteq DOMAIN member

CallOK(c) == tx[c].pc # "idle" => PcFits(tx[c]) /\ ArgsFit(tx[c]) /\ DrawnFits(tx[c])

\* Two transactions do not add one node.
Distinct ==
    \A c, d \in Clients :
       /\ c # d /\ tx[c].pc = "written" /\ tx[d].pc = "written" /\ Adds(tx[c].op) /\ Adds(tx[d].op)
       => tx[c].node # tx[d].node

Inv == TypeOK /\ Tables /\ (\A c \in Clients : CallOK(c)) /\ Distinct

LEMMA IdleType == Idle \in TxType /\ Idle.pc = "idle"
BY DEF Idle, TxType, PCs, AnyStatus, Ids

LEMMA InitInv == Init => Inv
<1> SUFFICES ASSUME Init PROVE Inv
  OBVIOUS
<1> USE MindmapAssumption
<1>1. TypeOK
  BY DEF Init, TypeOK
<1>2. Tables
  BY IdleType DEF Init, Tables
<1>3. \A c \in Clients : tx[c].pc = "idle"
  BY IdleType DEF Init
<1> QED BY <1>1, <1>2, <1>3 DEF Inv, CallOK, Distinct

\* Tables only grow.
Grow ==
    /\ DOMAIN maps \subseteq DOMAIN maps' /\ DOMAIN member \subseteq DOMAIN member'
    /\ \A n \in DOMAIN member : member'[n].map = member[n].map
    /\ clock' \in Nat /\ clock <= clock'
    /\ nextId' \in Nat \ {0} /\ nextId <= nextId'
    /\ nextEvent' \in Nat \ {0} /\ nextEvent <= nextEvent'
    /\ events \subseteq events'

\* A call that does not move stays in order when the tables grow by nodes that
\* are not its own.
LEMMA OtherCall ==
    ASSUME Inv, Grow, NEW d \in Clients, tx'[d] = tx[d],
           tx[d].pc = "written" /\ Adds(tx[d].op) => tx[d].node \notin DOMAIN member'
    PROVE  CallOK(d)'
<1>1. CASE tx[d].pc = "idle"
  BY <1>1 DEF CallOK
<1>2. CASE tx[d].pc # "idle"
  <2>1. PICK t \in TxType : t = tx[d]
    BY DEF Inv, Tables
  <2>2. PcFits(t) /\ ArgsFit(t) /\ DrawnFits(t)
    BY <1>2, <2>1 DEF Inv, CallOK
  <2>3. ArgsFit(t)'
    BY <2>2 DEF ArgsFit, Grow
  <2>4. DrawnFits(t)'
    <3>1. t.at \in Nat /\ t.event \in Nat /\ clock \in Nat /\ nextEvent \in Nat /\ nextId \in Nat
      BY DEF TxType, Inv, Tables
    <3>2. t.node \in Ids => t.node \in Nat
      BY DEF Ids
    <3> QED BY <2>1, <2>2, <3>1, <3>2 DEF DrawnFits, Grow
  <2> QED BY <2>1, <2>2, <2>3, <2>4 DEF CallOK, PcFits
<1> QED BY <1>1, <1>2

\* A step of client c keeps the invariant when it leaves its own call in order and
\* adds no node but its own.
LEMMA Move ==
    ASSUME Inv, Grow, NEW c \in Clients, TypeOK', Tables', CallOK(c)',
           \A d \in Clients : d # c => tx'[d] = tx[d],
           \A n \in DOMAIN member' :
              \/ n \in DOMAIN member
              \/ n = tx[c].node /\ tx[c].pc = "written" /\ Adds(tx[c].op),
           tx'[c].pc = "written" /\ Adds(tx'[c].op) =>
              \A d \in Clients : d # c /\ tx[d].pc = "written" /\ Adds(tx[d].op) => tx'[c].node # tx[d].node
    PROVE  Inv'
<1>1. ASSUME NEW d \in Clients, d # c PROVE CallOK(d)'
  <2>1. tx[d].pc = "written" /\ Adds(tx[d].op) => tx[d].node \notin DOMAIN member
    BY DEF Inv, CallOK, DrawnFits
  <2>2. tx[d].pc = "written" /\ Adds(tx[d].op) => tx[d].node \notin DOMAIN member'
    BY <1>1, <2>1 DEF Inv, Distinct
  <2> QED BY <1>1, <2>2, OtherCall
<1>2. Distinct'
  BY DEF Distinct, Inv
<1> QED BY <1>1, <1>2 DEF Inv

----------------------------------------------------------------------------
(* Calls begin.                                                              *)

LEMMA StartCall ==
    ASSUME Inv, NEW c \in Clients, NEW t \in TxType, Start(c, t), t.pc # "written",
           PcFits(t), ArgsFit(t), DrawnFits(t)', clock' = clock \/ clock' = Now,
           UNCHANGED <<maps, member, events, nextId, nextEvent, cursor, History>>
    PROVE  Inv'
<1>0. TypeOK /\ Tables /\ clock \in Nat
  BY DEF Inv, Tables
<1>1. tx' \in [Clients -> TxType] /\ tx'[c] = t /\ \A d \in Clients : d # c => tx'[d] = tx[d]
  BY <1>0 DEF Start, Tables
<1>2. UNCHANGED <<told, reviewed, promoted>> /\ clock' \in Nat /\ clock <= clock'
  BY <1>0 DEF History, Now
<1>3. TypeOK'
  <2>1. 1..clock \subseteq 1..clock'
    BY <1>0, <1>2
  <2> QED BY <1>0, <1>2, <2>1 DEF TypeOK
<1>4. Tables'
  BY <1>0, <1>1, <1>2 DEF Tables
<1>5. Grow
  BY <1>0, <1>2 DEF Grow, Tables
<1>6. ArgsFit(t)'
  BY DEF ArgsFit
<1>7. CallOK(c)'
  BY <1>1, <1>6 DEF CallOK, PcFits
<1> QED BY <1>1, <1>3, <1>4, <1>5, <1>7, Move

\* A bounded set of naturals has a largest element.
LEMMA Largest ==
    ASSUME NEW S \in SUBSET Nat, S # {}, NEW b \in Nat, \A i \in S : i <= b
    PROVE  \E i \in S : \A j \in S : j <= i
<1> DEFINE T == {n \in Nat : b - n \in S}
<1>1. T # {} /\ T \subseteq Nat
  <2>1. PICK i \in S : TRUE
    OBVIOUS
  <2>2. b - i \in Nat /\ b - (b - i) = i
    BY <2>1
  <2> QED BY <2>1, <2>2
<1>2. PICK n \in T : \A m \in T : <<m, n>> \notin OpToRel(<, Nat)
  BY <1>1, NatLessThanWellFounded, WFMin
<1>3. \A m \in T : ~(m < n)
  BY <1>2 DEF OpToRel
<1>4. ASSUME NEW j \in S PROVE j <= b - n
  <2>1. b - j \in T
    BY b - j \in Nat /\ b - (b - j) = j
  <2>2. ~(b - j < n) /\ n \in Nat
    BY <1>3, <2>1
  <2> QED BY <2>2
<1> QED BY <1>2, <1>4

\* The largest event id of a map, or 0.
LEMMA CursorNat ==
    ASSUME TypeOK, Tables, NEW m
    PROVE  /\ current_cursor(m, {}) \in Nat
           /\ current_cursor(m, {}) < nextEvent
           /\ \A e \in events : e.map = m => e.id <= current_cursor(m, {})
<1> DEFINE ids == {0} \cup {} \cup {e.id : e \in {f \in events : f.map = m}}
<1>1. \A e \in events : e.id \in Nat /\ e.id < nextEvent
  BY DEF TypeOK, Event
<1>2. nextEvent \in Nat /\ nextEvent # 0
  BY DEF Tables
<1>3. ids \in SUBSET Nat /\ ids # {} /\ \A i \in ids : i < nextEvent /\ i <= nextEvent
  BY <1>1, <1>2
<1>4. current_cursor(m, {}) = CHOOSE i \in ids : \A j \in ids : j <= i
  BY DEF current_cursor
<1>5. \A e \in events : e.map = m => e.id \in ids
  OBVIOUS
<1> HIDE DEF ids
<1>6. \E i \in ids : \A j \in ids : j <= i
  BY <1>2, <1>3, Largest
<1>7. current_cursor(m, {}) \in ids /\ \A j \in ids : j <= current_cursor(m, {})
  BY <1>4, <1>6
<1> QED BY <1>3, <1>5, <1>7

LEMMA OwnCursorNat ==
    ASSUME TypeOK, Tables, NEW m
    PROVE  current_cursor(m, {nextEvent}) \in Nat
<1> DEFINE ids == {0} \cup {nextEvent} \cup {e.id : e \in {f \in events : f.map = m}}
<1>1. \A e \in events : e.id \in Nat /\ e.id < nextEvent
  BY DEF TypeOK, Event
<1>2. nextEvent \in Nat
  BY DEF Tables
<1>3. ids \in SUBSET Nat /\ ids # {} /\ \A i \in ids : i <= nextEvent
  BY <1>1, <1>2
<1>4. current_cursor(m, {nextEvent}) = CHOOSE i \in ids : \A j \in ids : j <= i
  BY DEF current_cursor
<1> HIDE DEF ids
<1>5. \E i \in ids : \A j \in ids : j <= i
  BY <1>2, <1>3, Largest
<1> QED BY <1>3, <1>4, <1>5

LEMMA SinceIds ==
    ASSUME TypeOK, NEW m, NEW k
    PROVE  fetch_memory_ids_since(m, k) \subseteq Ids
BY DEF TypeOK, Event, fetch_memory_ids_since

LEMMA CheckInv == ASSUME Inv, NEW c \in Clients, Check(c) PROVE Inv'
<1> USE MindmapAssumption
<1>0. /\ TypeOK /\ clock \in Nat /\ Now \in Nat /\ Now \in 1..Now
      /\ DOMAIN maps \subseteq Ids /\ DOMAIN member \subseteq Ids
      /\ \A n \in DOMAIN member : member[n].map \in DOMAIN maps
  BY DEF Inv, Tables, TypeOK, Now
<1>1. ASSUME OpenCheck(c) PROVE Inv'
  <2>1. PICK s \in Seeds : Start(c, [Idle EXCEPT !.pc = "checked", !.op = "open", !.seed = s])
    BY <1>1 DEF OpenCheck
  <2>2. PICK t : t = [Idle EXCEPT !.pc = "checked", !.op = "open", !.seed = s]
    OBVIOUS
  <2>4. t \in TxType
    BY ZenonT(60), <1>0, <2>2, IdleType DEF TxType, Idle, PCs, OpNames, WebOps, Parties, AnyStatus
  <2>5. t.pc = "checked" /\ t.op = "open" /\ t.seed = s /\ t.question = None /\ t.status = "open"
    BY <2>2 DEF Idle
  <2>6. Start(c, t) /\ UNCHANGED <<maps, member, events, nextId, nextEvent, cursor, History>> /\ clock' = clock
    BY <1>1, <2>1, <2>2 DEF OpenCheck, Sequences
  <2>7. PcFits(t) /\ DrawnFits(t)'
    BY <1>0, <2>5, <2>6 DEF PcFits, DrawnFits, Writes, Reads
  <2>8. ArgsFit(t)
    BY <2>5, <2>6 DEF ArgsFit, Writes, Start
  <2> QED BY <2>4, <2>5, <2>6, <2>7, <2>8, StartCall
<1>2. ASSUME WriteNodeCheck(c) PROVE Inv'
  <2>1. PICK m \in LiveMaps, p \in Authors, u \in Turns :
          Start(c, [Idle EXCEPT !.pc = "checked", !.map = m, !.party = p, !.turn = u,
                            !.op = IF p = "owner" THEN "write_owner" ELSE "write_model"])
    BY <1>2 DEF WriteNodeCheck
  <2>2. PICK t : t = [Idle EXCEPT !.pc = "checked", !.map = m, !.party = p, !.turn = u,
                            !.op = IF p = "owner" THEN "write_owner" ELSE "write_model"]
    OBVIOUS
  <2>3. m \in DOMAIN maps /\ m \in Ids
    BY <1>0, <2>1 DEF LiveMaps
  <2>4. t \in TxType
    <3>1. /\ "checked" \in PCs /\ p \in Parties \cup {"null"} /\ m \in Ids \cup {None}
          /\ u \in Parties \cup {"null"}
          /\ (IF p = "owner" THEN "write_owner" ELSE "write_model") \in OpNames \cup {"none"}
      BY <2>3, MindmapAssumption DEF PCs, OpNames, Parties
    <3> QED BY ZenonT(60), <2>2, <3>1, IdleType DEF TxType
  <2>5. t.pc = "checked" /\ t.map = m /\ t.question = None /\ t.status = "open" /\ t.op = (IF p = "owner" THEN "write_owner" ELSE "write_model")
    BY <2>2 DEF Idle
  <2>6. Start(c, t) /\ UNCHANGED <<maps, member, events, nextId, nextEvent, cursor, History>> /\ clock' = clock
    BY <1>2, <2>1, <2>2 DEF WriteNodeCheck, Sequences
  <2>7. PcFits(t) /\ DrawnFits(t)'
    BY <1>0, <2>5, <2>6 DEF PcFits, DrawnFits, Writes, Reads
  <2>8. ArgsFit(t)
    BY <2>5, <2>6, <2>3 DEF ArgsFit, Writes, Start
  <2> QED BY <2>4, <2>5, <2>6, <2>7, <2>8, StartCall
<1>3. ASSUME AnswerCheck(c) PROVE Inv'
  <2>0. PICK m \in LiveMaps, p \in Parties, s \in {"open", "resolved"} : \E q \in Answerable(m) : Start(c, [Idle EXCEPT !.pc = "checked", !.map = m, !.party = p, !.question = q,
                            !.status = s, !.op = "answer"])
    BY <1>3 DEF AnswerCheck
  <2>1. PICK q \in Answerable(m) : Start(c, [Idle EXCEPT !.pc = "checked", !.map = m, !.party = p, !.question = q,
                            !.status = s, !.op = "answer"])
    BY <2>0
  <2>2. PICK t : t = [Idle EXCEPT !.pc = "checked", !.map = m, !.party = p, !.question = q,
                            !.status = s, !.op = "answer"]
    OBVIOUS
  <2>3. m \in DOMAIN maps /\ m \in Ids /\ q \in DOMAIN member /\ q \in Ids /\ member[q].map = m
    BY <1>0, <2>1 DEF LiveMaps, Answerable, fetch_members, Members
  <2>4. t \in TxType
    <3>1. /\ "checked" \in PCs /\ p \in Parties \cup {"null"} /\ m \in Ids \cup {None}
          /\ q \in Ids \cup {None} /\ s \in AnyStatus /\ "answer" \in OpNames \cup {"none"}
      BY <2>3 DEF PCs, OpNames, WebOps, AnyStatus
    <3> QED BY <2>2, <3>1, IdleType DEF TxType
  <2>5. t.pc = "checked" /\ t.map = m /\ t.question = q /\ t.status = s /\ t.op = "answer"
    BY <2>2 DEF Idle
  <2>6. Start(c, t) /\ UNCHANGED <<maps, member, events, nextId, nextEvent, cursor, History>> /\ clock' = clock
    BY <1>3, <2>1, <2>2 DEF AnswerCheck, Sequences
  <2>7. PcFits(t) /\ DrawnFits(t)'
    BY <1>0, <2>5, <2>6 DEF PcFits, DrawnFits, Writes, Reads
  <2>8. ArgsFit(t)
    BY <2>5, <2>6, <2>3 DEF ArgsFit, Writes, Start
  <2> QED BY <2>4, <2>5, <2>6, <2>7, <2>8, StartCall
<1>4. ASSUME ResolveCheck(c) PROVE Inv'
  <2>0. PICK m \in LiveMaps, s \in {"resolved", "dropped"} : \E n \in Members(m) : Start(c, [Idle EXCEPT !.pc = "begun", !.map = m, !.node = n, !.question = n, !.status = s,
                            !.op = "resolve", !.at = Now])
    BY <1>4 DEF ResolveCheck
  <2>1. PICK n \in Members(m) : Start(c, [Idle EXCEPT !.pc = "begun", !.map = m, !.node = n, !.question = n, !.status = s,
                            !.op = "resolve", !.at = Now])
    BY <2>0
  <2>2. PICK t : t = [Idle EXCEPT !.pc = "begun", !.map = m, !.node = n, !.question = n, !.status = s,
                            !.op = "resolve", !.at = Now]
    OBVIOUS
  <2>3. m \in DOMAIN maps /\ m \in Ids /\ n \in DOMAIN member /\ n \in Ids /\ member[n].map = m
    BY <1>0, <2>1 DEF LiveMaps, Members
  <2>4. t \in TxType
    BY ZenonT(60), <1>0, <2>2, <2>3, IdleType DEF TxType, Idle, PCs, OpNames, WebOps, Parties, AnyStatus
  <2>5. t.pc = "begun" /\ t.map = m /\ t.node = n /\ t.status = s /\ t.op = "resolve" /\ t.at = Now
    BY <2>2 DEF Idle
  <2>6. Start(c, t) /\ UNCHANGED <<maps, member, events, nextId, nextEvent, cursor, History>> /\ clock' = Now
    BY <1>4, <2>1, <2>2 DEF ResolveCheck, Sequences
  <2>7. PcFits(t) /\ DrawnFits(t)'
    BY <1>0, <2>5, <2>6 DEF PcFits, DrawnFits, Writes, Reads
  <2>8. ArgsFit(t)
    BY <2>5, <2>6, <2>3 DEF ArgsFit, Writes, Start
  <2> QED BY <2>4, <2>5, <2>6, <2>7, <2>8, StartCall
<1>5. ASSUME LinkCheck(c) PROVE Inv'
  <2>1. PICK m \in DOMAIN maps, n \in DOMAIN member : Start(c, [Idle EXCEPT !.pc = "begun", !.map = m, !.node = n, !.op = "link", !.at = Now])
    BY <1>5 DEF LinkCheck
  <2>2. PICK t : t = [Idle EXCEPT !.pc = "begun", !.map = m, !.node = n, !.op = "link", !.at = Now]
    OBVIOUS
  <2>3. m \in Ids /\ n \in Ids
    BY <1>0, <2>1 DEF Ids
  <2>4. t \in TxType
    BY ZenonT(60), <1>0, <2>2, <2>3, IdleType DEF TxType, Idle, PCs, OpNames, WebOps, Parties, AnyStatus
  <2>5. t.pc = "begun" /\ t.map = m /\ t.node = n /\ t.op = "link" /\ t.at = Now
    BY <2>2 DEF Idle
  <2>6. Start(c, t) /\ UNCHANGED <<maps, member, events, nextId, nextEvent, cursor, History>> /\ clock' = Now
    BY <1>5, <2>1, <2>2 DEF LinkCheck, Sequences
  <2>7. PcFits(t) /\ DrawnFits(t)'
    BY <1>0, <2>5, <2>6 DEF PcFits, DrawnFits, Writes, Reads
  <2>8. ArgsFit(t)
    BY <2>5, <2>6, <2>3 DEF ArgsFit, Writes, Start
  <2> QED BY <2>4, <2>5, <2>6, <2>7, <2>8, StartCall
<1>6. ASSUME CloseCheck(c) PROVE Inv'
  <2>1. PICK m \in LiveMaps : Start(c, [Idle EXCEPT !.pc = "checked", !.map = m, !.op = "close"])
    BY <1>6 DEF CloseCheck
  <2>2. PICK t : t = [Idle EXCEPT !.pc = "checked", !.map = m, !.op = "close"]
    OBVIOUS
  <2>3. m \in DOMAIN maps /\ m \in Ids
    BY <1>0, <2>1 DEF LiveMaps
  <2>4. t \in TxType
    BY ZenonT(60), <1>0, <2>2, <2>3, IdleType DEF TxType, Idle, PCs, OpNames, WebOps, Parties, AnyStatus
  <2>5. t.pc = "checked" /\ t.map = m /\ t.node = None /\ t.op = "close"
    BY <2>2 DEF Idle
  <2>6. Start(c, t) /\ UNCHANGED <<maps, member, events, nextId, nextEvent, cursor, History>> /\ clock' = clock
    BY <1>6, <2>1, <2>2 DEF CloseCheck, Sequences
  <2>7. PcFits(t) /\ DrawnFits(t)'
    BY <1>0, <2>5, <2>6 DEF PcFits, DrawnFits, Writes, Reads
  <2>8. ArgsFit(t)
    BY <2>5, <2>6, <2>3 DEF ArgsFit, Writes, Start
  <2> QED BY <2>4, <2>5, <2>6, <2>7, <2>8, StartCall
<1>7. ASSUME GetBegin(c) PROVE Inv'
  <2>1. PICK m \in DOMAIN maps, op \in Reads : Start(c, [Idle EXCEPT !.pc = IF Delta(op) THEN "head" ELSE "fetch", !.map = m, !.op = op,
                            !.at = Now, !.cursor = current_cursor(m, {}),
                            !.ids = fetch_memory_ids_since(m, IF Delta(op) THEN cursor[c][m] ELSE 0)])
    BY <1>7 DEF GetBegin
  <2>2. PICK t : t = [Idle EXCEPT !.pc = IF Delta(op) THEN "head" ELSE "fetch", !.map = m, !.op = op,
                            !.at = Now, !.cursor = current_cursor(m, {}),
                            !.ids = fetch_memory_ids_since(m, IF Delta(op) THEN cursor[c][m] ELSE 0)]
    OBVIOUS
  <2>3. /\ m \in Ids /\ current_cursor(m, {}) \in Nat
        /\ fetch_memory_ids_since(m, IF Delta(op) THEN cursor[c][m] ELSE 0) \subseteq Ids
    BY <1>0, <2>1, CursorNat, SinceIds DEF Inv
  <2>4. t \in TxType
    <3>1. /\ (IF Delta(op) THEN "head" ELSE "fetch") \in PCs /\ m \in Ids \cup {None}
          /\ op \in OpNames \cup {"none"}
      BY <2>3 DEF PCs, OpNames, WebOps, Reads
    <3> QED BY ZenonT(60), <1>0, <2>2, <2>3, <3>1, IdleType DEF TxType
  <2>5. t.pc = (IF Delta(op) THEN "head" ELSE "fetch") /\ t.map = m /\ t.op = op /\ t.at = Now
    BY <2>2 DEF Idle
  <2>6. Start(c, t) /\ UNCHANGED <<maps, member, events, nextId, nextEvent, cursor, History>> /\ clock' = Now
    BY <1>7, <2>1, <2>2 DEF GetBegin, Sequences
  <2>7. PcFits(t) /\ DrawnFits(t)'
    BY <1>0, <2>5, <2>6 DEF PcFits, DrawnFits, Writes, Reads
  <2>8. ArgsFit(t)
    BY <2>1, <2>5, <2>6, <2>3 DEF ArgsFit, Writes, Start, Reads
  <2> QED BY <2>4, <2>5, <2>6, <2>7, <2>8, StartCall
<1>8. ASSUME ReviewRead(c) PROVE Inv'
  <2>1. PICK m \in DOMAIN maps : Start(c, [Idle EXCEPT !.pc = "reset", !.map = m, !.op = "review", !.ids = ReviewNodes(m)])
    BY <1>8 DEF ReviewRead
  <2>2. PICK t : t = [Idle EXCEPT !.pc = "reset", !.map = m, !.op = "review", !.ids = ReviewNodes(m)]
    OBVIOUS
  <2>3. m \in Ids /\ ReviewNodes(m) \subseteq DOMAIN member /\ ReviewNodes(m) \subseteq Ids
    BY <1>0, <2>1 DEF ReviewNodes, fetch_members, Members
  <2>4. t \in TxType
    BY ZenonT(60), <1>0, <2>2, <2>3, IdleType DEF TxType, Idle, PCs, OpNames, WebOps, Parties, AnyStatus
  <2>5. t.pc = "reset" /\ t.map = m /\ t.op = "review" /\ t.ids = ReviewNodes(m)
    BY <2>2 DEF Idle
  <2>6. Start(c, t) /\ UNCHANGED <<maps, member, events, nextId, nextEvent, cursor, History>> /\ clock' = clock
    BY <1>8, <2>1, <2>2 DEF ReviewRead, Sequences
  <2>7. PcFits(t) /\ DrawnFits(t)'
    BY <1>0, <2>3, <2>5, <2>6 DEF PcFits, DrawnFits, Writes, Reads
  <2>8. ArgsFit(t)
    BY <2>5, <2>6, <2>3 DEF ArgsFit, Writes, Start
  <2> QED BY <2>4, <2>5, <2>6, <2>7, <2>8, StartCall
<1> QED BY <1>1, <1>2, <1>3, <1>4, <1>5, <1>6, <1>7, <1>8 DEF Check

----------------------------------------------------------------------------
(* Steps that leave maps and nodes alone.                                    *)

\* Events may be added.
EventsGrow ==
    /\ nextEvent' \in Nat \ {0} /\ nextEvent <= nextEvent'
    /\ events \subseteq events' /\ events' \subseteq Event
    /\ \A e \in events' : /\ e.id < nextEvent' /\ e.map \in DOMAIN maps'
                          /\ e.node # None => e.node \in DOMAIN member'

LEMMA QuietStep ==
    ASSUME Inv, NEW c \in Clients, NEW t \in TxType, tx' = [tx EXCEPT ![c] = t],
           UNCHANGED <<maps, member, told, reviewed, cursor>>, promoted' \in [Ids -> Nat],
           clock' \in Nat, clock <= clock', nextId' \in Nat, nextId <= nextId', EventsGrow,
           t.pc # "idle" => PcFits(t) /\ ArgsFit(t) /\ DrawnFits(t)',
           t.pc = "written" /\ Adds(t.op) =>
              \A d \in Clients : d # c /\ tx[d].pc = "written" /\ Adds(tx[d].op) => t.node # tx[d].node
    PROVE  Inv'
<1>0. TypeOK /\ Tables /\ clock \in Nat /\ nextId \in Nat /\ nextId # 0
  BY DEF Inv, Tables
<1>1. tx' \in [Clients -> TxType] /\ tx'[c] = t /\ \A d \in Clients : d # c => tx'[d] = tx[d]
  BY <1>0 DEF Tables
<1>2. TypeOK'
  <2>1. 1..clock \subseteq 1..clock'
    BY <1>0
  <2>2. {e.id : e \in events} \subseteq {e.id : e \in events'}
    BY DEF EventsGrow
  <2> QED BY <1>0, <2>1, <2>2 DEF TypeOK, EventsGrow
<1>3. Tables'
  <2>1. \A n \in DOMAIN member : n \in Nat
    BY <1>0 DEF TypeOK, Ids
  <2> QED BY <1>0, <1>1, <2>1 DEF Tables, EventsGrow
<1>4. Grow
  BY <1>0 DEF Grow, EventsGrow
<1>5. t.pc # "idle" => ArgsFit(t)'
  BY DEF ArgsFit
<1>6. CallOK(c)'
  BY <1>1, <1>5 DEF CallOK, PcFits
<1> QED BY <1>1, <1>2, <1>3, <1>4, <1>6, Move

LEMMA SameEvents ==
    ASSUME Inv, UNCHANGED <<maps, member, events, nextEvent>>
    PROVE  EventsGrow
BY DEF Inv, TypeOK, Tables, EventsGrow

\* An event of the record of a call or of a review.
LEMMA OneEvent ==
    ASSUME Inv, NEW e \in Event, events' = events \cup {e}, nextEvent' \in Nat, nextEvent <= nextEvent',
           e.id < nextEvent', DOMAIN maps \subseteq DOMAIN maps', DOMAIN member \subseteq DOMAIN member',
           e.map \in DOMAIN maps', e.node # None => e.node \in DOMAIN member'
    PROVE  EventsGrow
<1>1. \A f \in events : f \in Event /\ f.id \in Nat /\ f.id < nextEvent
  BY DEF Inv, TypeOK, Event
<1>2. nextEvent \in Nat /\ nextEvent # 0
  BY DEF Inv, Tables
<1> QED BY <1>1, <1>2 DEF Inv, TypeOK, Tables, EventsGrow

LEMMA RollbackInv == ASSUME Inv, NEW c \in Clients, Rollback(c) PROVE Inv'
<1>1. /\ UNCHANGED <<maps, member, events, clock, nextId, nextEvent, cursor, told, reviewed, promoted>>
      /\ tx' = [tx EXCEPT ![c] = Idle]
  BY DEF Rollback, Sequences, History
<1>2. clock' \in Nat /\ clock <= clock' /\ nextId' \in Nat /\ nextId <= nextId' /\ promoted' \in [Ids -> Nat]
  BY <1>1 DEF Inv, Tables
<1> QED BY <1>1, <1>2, IdleType, SameEvents, QuietStep

LEMMA GraphInv == ASSUME Inv, NEW c \in Clients, ClosePromote(c) \/ GraphBegin(c) \/ GraphWrite(c) PROVE Inv'
<1>0. /\ clock \in Nat /\ nextId \in Nat /\ nextEvent \in Nat /\ nextEvent # 0 /\ promoted \in [Ids -> Nat]
      /\ tx \in [Clients -> TxType] /\ TypeOK /\ Tables
  BY DEF Inv, Tables
<1>1. PICK t \in TxType : t = tx[c]
  BY <1>0
<1>2. t.pc # "idle" => PcFits(t) /\ ArgsFit(t) /\ DrawnFits(t)
  BY <1>1 DEF Inv, CallOK
<1>3. UNCHANGED <<maps, member, events, told, reviewed, cursor>>
  BY DEF ClosePromote, GraphBegin, GraphWrite, Sequences, History
<1>4. CASE ClosePromote(c)
  <2>1. PICK u : u = [t EXCEPT !.pc = "promoted"]
    OBVIOUS
  <2>2. u \in TxType
    BY <2>1 DEF TxType, PCs
  <2>3. /\ u.pc = "promoted" /\ u.op = t.op /\ u.map = t.map /\ u.question = t.question
        /\ u.status = t.status /\ u.node = t.node /\ u.seed = t.seed
    BY <2>1 DEF TxType
  <2>4. tx' = [tx EXCEPT ![c] = u] /\ t.pc = "checked"
    BY <1>1, <1>4, <2>1 DEF ClosePromote
  <2>5. PcFits(u) /\ DrawnFits(u)'
    BY <1>2, <2>3, <2>4 DEF PcFits, DrawnFits
  <2>6. ArgsFit(u)
    BY <1>2, <2>3, <2>4 DEF ArgsFit
  <2>7. UNCHANGED <<clock, nextId, nextEvent>> /\ promoted' \in [Ids -> Nat]
    <3>1. promoted' = [promoted EXCEPT ![tx[c].map] = @ + 1] /\ UNCHANGED <<clock, nextId, nextEvent>>
      BY <1>4 DEF ClosePromote, Sequences
    <3>2. t.map \in Ids
      BY <1>0, <1>1, <1>2, <1>4, <2>4 DEF ArgsFit, TypeOK, ClosePromote
    <3> QED BY <1>0, <1>1, <3>1, <3>2
  <2>8. EventsGrow
    BY <1>3, <2>7, SameEvents
  <2>9. /\ UNCHANGED <<maps, member, told, reviewed, cursor>> /\ promoted' \in [Ids -> Nat]
        /\ clock' \in Nat /\ clock <= clock' /\ nextId' \in Nat /\ nextId <= nextId'
    BY <1>0, <1>3, <2>7
  <2> QED BY <2>2, <2>3, <2>4, <2>5, <2>6, <2>8, <2>9, QuietStep
<1>5. CASE GraphBegin(c)
  <2>1. PICK u : u = [t EXCEPT !.pc = "begun", !.at = Now]
    OBVIOUS
  <2>2. u \in TxType /\ Now \in 1..Now
    <3>1. Now \in Nat /\ Now \in 1..Now
      BY <1>0 DEF Now
    <3> QED BY <2>1, <3>1 DEF TxType, PCs
  <2>3. /\ u.pc = "begun" /\ u.op = t.op /\ u.map = t.map /\ u.question = t.question
        /\ u.status = t.status /\ u.node = t.node /\ u.seed = t.seed /\ u.at = Now
    BY <2>1 DEF TxType
  <2>4. tx' = [tx EXCEPT ![c] = u] /\ t.pc \in {"checked", "promoted"} /\ clock' = Now
    BY <1>1, <1>5, <2>1 DEF GraphBegin
  <2>5. PcFits(u) /\ DrawnFits(u)'
    BY <1>2, <2>2, <2>3, <2>4 DEF PcFits, DrawnFits
  <2>6. ArgsFit(u)
    BY <1>2, <2>3, <2>4 DEF ArgsFit
  <2>7. UNCHANGED <<nextId, nextEvent, promoted>>
    BY <1>5 DEF GraphBegin, History
  <2>8. EventsGrow /\ clock' \in Nat /\ clock <= clock'
    BY <1>0, <1>3, <2>4, <2>7, SameEvents DEF Now
  <2>9. /\ UNCHANGED <<maps, member, told, reviewed, cursor>> /\ promoted' \in [Ids -> Nat]
        /\ clock' \in Nat /\ clock <= clock' /\ nextId' \in Nat /\ nextId <= nextId'
    BY <1>0, <1>3, <2>7, <2>8
  <2> QED BY <2>2, <2>3, <2>4, <2>5, <2>6, <2>8, <2>9, QuietStep
<1>6. CASE GraphWrite(c)
  <2>0. PICK n, m : /\ n = IF Adds(t.op) THEN nextId ELSE t.node
                    /\ m = IF t.op = "open" THEN n ELSE t.map
    OBVIOUS
  <2>1. PICK u : u = [t EXCEPT !.pc = "written", !.node = n, !.map = m, !.event = nextEvent,
                               !.cursor = current_cursor(m, {nextEvent})]
    OBVIOUS
  <2>2. Adds(t.op) => nextId \in Ids
    BY <1>1, <1>6 DEF GraphWrite
  <2>3. n \in Ids \cup {None} /\ m \in Ids \cup {None} /\ current_cursor(m, {nextEvent}) \in Nat
    <3>1. n \in Ids \cup {None} /\ m \in Ids \cup {None}
      BY <2>0, <2>2 DEF TxType
    <3> QED BY <1>0, <3>1, OwnCursorNat
  <2>4. u \in TxType
    BY <1>0, <2>1, <2>3 DEF TxType, PCs
  <2>5. /\ u.pc = "written" /\ u.op = t.op /\ u.map = m /\ u.question = t.question
        /\ u.status = t.status /\ u.node = n /\ u.seed = t.seed /\ u.at = t.at /\ u.event = nextEvent
    BY <2>1 DEF TxType
  <2>6. /\ tx' = [tx EXCEPT ![c] = u] /\ t.pc = "begun" /\ nextEvent' = nextEvent + 1
        /\ nextId' = IF Adds(t.op) THEN nextId + 1 ELSE nextId
        /\ UNCHANGED <<clock, promoted>>
    BY <1>1, <1>6, <2>0, <2>1 DEF GraphWrite, History
  <2>7. PcFits(u)
    BY <1>2, <2>5, <2>6 DEF PcFits
  <2>8. ArgsFit(u)
    BY <1>2, <2>0, <2>5, <2>6 DEF ArgsFit, Adds, Writes
  <2>9. nextId \notin DOMAIN member /\ \A d \in Clients : tx[d].pc = "written" /\ Adds(tx[d].op) => tx[d].node # nextId
    BY <1>0 DEF Tables, Inv, CallOK, DrawnFits
  <2>10. DrawnFits(u)'
    BY <1>0, <1>2, <1>3, <2>0, <2>2, <2>5, <2>6, <2>9 DEF DrawnFits, Adds
  <2>11. EventsGrow
    BY <1>0, <1>3, <2>6 DEF TypeOK, Event, Tables, EventsGrow
  <2>12. /\ UNCHANGED <<maps, member, told, reviewed, cursor>> /\ promoted' \in [Ids -> Nat]
        /\ clock' \in Nat /\ clock <= clock' /\ nextId' \in Nat /\ nextId <= nextId'
    BY <1>0, <1>3, <2>6
  <2>13. Adds(u.op) => u.node = nextId
    BY <2>0, <2>5
  <2> QED BY <2>4, <2>5, <2>6, <2>7, <2>8, <2>9, <2>10, <2>11, <2>12, <2>13, QuietStep
<1> QED BY <1>4, <1>5, <1>6

LEMMA GetInv == ASSUME Inv, NEW c \in Clients, GetHead(c) \/ GetMembers(c) PROVE Inv'
<1>0. /\ clock \in Nat /\ nextId \in Nat /\ nextEvent \in Nat /\ nextEvent # 0 /\ promoted \in [Ids -> Nat]
      /\ tx \in [Clients -> TxType] /\ TypeOK /\ Tables
  BY DEF Inv, Tables
<1>1. PICK t \in TxType : t = tx[c]
  BY <1>0
<1>2. t.pc # "idle" => PcFits(t) /\ ArgsFit(t) /\ DrawnFits(t)
  BY <1>1 DEF Inv, CallOK
<1>3. UNCHANGED <<maps, member, events, clock, nextId, nextEvent, told, reviewed, promoted, cursor>>
  BY DEF GetHead, GetMembers, Sequences, History
<1>4. EventsGrow
  BY <1>3, SameEvents
<1>9. /\ UNCHANGED <<maps, member, told, reviewed, cursor>> /\ promoted' \in [Ids -> Nat]
      /\ clock' \in Nat /\ clock <= clock' /\ nextId' \in Nat /\ nextId <= nextId'
  BY <1>0, <1>3
<1>5. CASE GetHead(c)
  <2>1. PICK u : u = [t EXCEPT !.pc = "fetch", !.cursor = current_cursor(t.map, {})]
    OBVIOUS
  <2>2. u \in TxType
    BY <1>0, <2>1, CursorNat DEF TxType, PCs
  <2>3. /\ u.pc = "fetch" /\ u.op = t.op /\ u.map = t.map /\ u.question = t.question
        /\ u.status = t.status /\ u.node = t.node /\ u.seed = t.seed /\ u.at = t.at
    BY <2>1 DEF TxType
  <2>4. tx' = [tx EXCEPT ![c] = u] /\ t.pc = "head"
    BY <1>1, <1>5, <2>1 DEF GetHead
  <2>5. PcFits(u) /\ DrawnFits(u)'
    BY <1>2, <1>3, <2>3, <2>4 DEF PcFits, DrawnFits
  <2>6. ArgsFit(u)
    BY <1>2, <2>3, <2>4 DEF ArgsFit
  <2> QED BY <1>4, <1>9, <2>2, <2>3, <2>4, <2>5, <2>6, QuietStep
<1>6. CASE GetMembers(c)
  <2>0. PICK ids : ids = {e.id : e \in {f \in events : f.map = tx[c].map /\ f.node \in Returned(tx[c])}}
    OBVIOUS
  <2>1. PICK u : u = [t EXCEPT !.pc = "touch", !.shown = ids]
    OBVIOUS
  <2>2. ids \subseteq {e.id : e \in events} /\ ids \subseteq Nat
    BY <1>0, <2>0 DEF TypeOK, Event
  <2>3. u \in TxType
    BY <2>1, <2>2 DEF TxType, PCs
  <2>4. /\ u.pc = "touch" /\ u.op = t.op /\ u.map = t.map /\ u.question = t.question /\ u.shown = ids
        /\ u.status = t.status /\ u.node = t.node /\ u.seed = t.seed /\ u.at = t.at
    BY <2>1 DEF TxType
  <2>5. tx' = [tx EXCEPT ![c] = u] /\ t.pc = "fetch"
    BY <1>1, <1>6, <2>0, <2>1 DEF GetMembers
  <2>6. PcFits(u) /\ DrawnFits(u)'
    BY <1>2, <1>3, <2>2, <2>4, <2>5 DEF PcFits, DrawnFits
  <2>7. ArgsFit(u)
    BY <1>2, <2>4, <2>5 DEF ArgsFit
  <2> QED BY <1>4, <1>9, <2>3, <2>4, <2>5, <2>6, <2>7, QuietStep
<1> QED BY <1>5, <1>6

LEMMA EventInv == ASSUME Inv, NEW c \in Clients, ReviewFlag(c) \/ LinkCommit(c) PROVE Inv'
<1>0. /\ clock \in Nat /\ nextId \in Nat /\ nextEvent \in Nat /\ nextEvent # 0 /\ promoted \in [Ids -> Nat]
      /\ tx \in [Clients -> TxType] /\ TypeOK /\ Tables
  BY DEF Inv, Tables
<1>1. PICK t \in TxType : t = tx[c]
  BY <1>0
<1>2. t.pc # "idle" => PcFits(t) /\ ArgsFit(t) /\ DrawnFits(t)
  BY <1>1 DEF Inv, CallOK
<1>3. UNCHANGED <<maps, member, clock, nextId, told, reviewed, promoted, cursor>> /\ tx' = [tx EXCEPT ![c] = Idle]
  BY DEF ReviewFlag, LinkCommit, Sequences, History
<1>4. EventsGrow
  <2>1. CASE ReviewFlag(c)
    <3>1. PICK e : e = [id |-> nextEvent, map |-> t.map, node |-> None]
      OBVIOUS
    <3>2. t.map \in DOMAIN maps /\ t.map \in Ids
      BY <1>0, <1>1, <1>2, <2>1 DEF ReviewFlag, PcFits, ArgsFit, Writes, TypeOK
    <3>3. e \in Event /\ e.id = nextEvent /\ e.map = t.map /\ e.node = None
      BY <1>0, <3>1, <3>2 DEF Event
    <3>4. events' = events \cup {e} /\ nextEvent' = nextEvent + 1
      BY <1>1, <2>1, <3>1 DEF ReviewFlag
    <3> QED BY <1>0, <1>3, <3>2, <3>3, <3>4, OneEvent
  <2>2. CASE LinkCommit(c)
    <3>1. PICK e : e = [id |-> t.event, map |-> t.map, node |-> t.node]
      OBVIOUS
    <3>2. t.map \in DOMAIN maps /\ t.map \in Ids /\ t.node \in DOMAIN member /\ t.event \in 1..nextEvent - 1 /\ t.node \in Ids
      BY <1>0, <1>1, <1>2, <2>2 DEF LinkCommit, DrawnFits, ArgsFit, Writes, TypeOK
    <3>3. e \in Event /\ e.id = t.event /\ e.map = t.map /\ e.node = t.node
      BY <1>0, <3>1, <3>2 DEF Event
    <3>4. events' = events \cup {e} /\ nextEvent' = nextEvent
      BY <1>1, <2>2, <3>1 DEF LinkCommit, Logged, Sequences
    <3> QED BY <1>0, <1>3, <3>2, <3>3, <3>4, OneEvent
  <2> QED BY <2>1, <2>2
<1>9. /\ UNCHANGED <<maps, member, told, reviewed, cursor>> /\ promoted' \in [Ids -> Nat]
      /\ clock' \in Nat /\ clock <= clock' /\ nextId' \in Nat /\ nextId <= nextId'
  BY <1>0, <1>3
<1> QED BY <1>3, <1>4, <1>9, IdleType, QuietStep

----------------------------------------------------------------------------
(* Steps that write the tables.                                              *)

LEMMA TableStep ==
    ASSUME Inv, NEW c \in Clients, NEW u \in TxType, tx' = [tx EXCEPT ![c] = u],
           UNCHANGED <<clock, nextId, promoted>>, EventsGrow, cursor' \in [Clients -> [Ids -> Nat]],
           DOMAIN maps \subseteq DOMAIN maps', DOMAIN maps' \subseteq DOMAIN member',
           \A m \in DOMAIN maps' : maps'[m] \in Map,
           DOMAIN member \subseteq DOMAIN member',
           \A n \in DOMAIN member' :
              \/ n \in DOMAIN member
              \/ n = tx[c].node /\ tx[c].pc = "written" /\ Adds(tx[c].op),
           \A n \in DOMAIN member : member'[n].map = member[n].map,
           \A n \in DOMAIN member' : /\ member'[n] \in Member /\ member'[n].map \in DOMAIN maps'
                                     /\ member'[n].added_at \in 1..clock,
           told' \in [Clients -> SUBSET Nat], \A d \in Clients : told'[d] \subseteq {e.id : e \in events'},
           reviewed' \subseteq DOMAIN member', u.pc # "written",
           u.pc # "idle" => PcFits(u) /\ ArgsFit(u)' /\ DrawnFits(u)'
    PROVE  Inv'
<1>0. TypeOK /\ Tables /\ clock \in Nat /\ nextId \in Nat /\ nextId # 0
  BY DEF Inv, Tables
<1>1. tx' \in [Clients -> TxType] /\ tx'[c] = u /\ \A d \in Clients : d # c => tx'[d] = tx[d]
  BY <1>0 DEF Tables
<1>2. \A n \in DOMAIN member' : n \in Ids /\ n < nextId
  BY <1>0 DEF TypeOK, Tables, Inv, CallOK, DrawnFits
<1>3. TypeOK'
  <2>1. DOMAIN maps' \subseteq Ids /\ DOMAIN member' \subseteq Ids
    BY <1>2
  <2>2. events' \subseteq Event /\ \A e \in events' : e.id < nextEvent' /\ e.map \in DOMAIN maps'
    BY DEF EventsGrow
  <2> QED BY <2>1, <2>2 DEF TypeOK
<1>4. Tables'
  BY <1>0, <1>1, <1>2 DEF Tables, EventsGrow
<1>5. Grow
  BY <1>0 DEF Grow, EventsGrow
<1>6. CallOK(c)'
  BY <1>1 DEF CallOK, PcFits
<1> QED BY <1>1, <1>3, <1>4, <1>5, <1>6, Move

LEMMA NewRow ==
    ASSUME NEW c, NEW turn \in Parties \cup {"null"}, tx[c] \in TxType, tx[c].map \in Ids
    PROVE  /\ insert_membership(c, turn) \in Member
           /\ insert_membership(c, turn).map = tx[c].map
           /\ insert_membership(c, turn).authored_by = tx[c].party
           /\ insert_membership(c, turn).turn = turn
           /\ insert_membership(c, turn).status = "open"
           /\ insert_membership(c, turn).added_at = tx[c].at
           /\ insert_membership(c, turn).answers = tx[c].question
           /\ insert_membership(c, turn).settles <=> tx[c].status = "resolved"
<1>1. /\ tx[c].party \in Parties \cup {"null"} /\ tx[c].at \in Nat /\ tx[c].question \in Ids \cup {None}
      /\ "open" \in {"open", "resolved", "dropped"} /\ (tx[c].status = "resolved") \in BOOLEAN
  BY DEF TxType
<1>2. insert_membership(c, turn) \in Member
  BY <1>1, Zenon DEF insert_membership, Member
<1>3. insert_membership(c, turn).settles <=> tx[c].status = "resolved"
  BY Zenon DEF insert_membership
<1> QED BY <1>2, <1>3 DEF insert_membership

\* Only the status of the branch changes.
LEMMA StatusRow ==
    ASSUME TypeOK, NEW n \in DOMAIN member, NEW s \in AnyStatus
    PROVE  /\ DOMAIN set_node_status(n, s) = DOMAIN member
           /\ \A k \in DOMAIN member :
                /\ set_node_status(n, s)[k] \in Member
                /\ k # n => set_node_status(n, s)[k] = member[k]
                /\ set_node_status(n, s)[k].map = member[k].map
                /\ set_node_status(n, s)[k].authored_by = member[k].authored_by
                /\ set_node_status(n, s)[k].turn = member[k].turn
                /\ set_node_status(n, s)[k].added_at = member[k].added_at
                /\ set_node_status(n, s)[k].answers = member[k].answers
                /\ set_node_status(n, s)[k].settles <=> member[k].settles
                /\ set_node_status(n, s)[n].status = s
<1>1. PICK r : r = [member[n] EXCEPT !.status = s]
  OBVIOUS
<1>2. member[n] \in Member /\ s \in {"open", "resolved", "dropped"}
  BY DEF TypeOK, AnyStatus
<1>3. r \in Member
  BY <1>1, <1>2, Zenon DEF Member
<1>4. /\ r.map = member[n].map /\ r.authored_by = member[n].authored_by /\ r.turn = member[n].turn
      /\ r.added_at = member[n].added_at /\ r.answers = member[n].answers /\ r.status = s
  BY <1>1, <1>2 DEF Member
<1>5. r.settles <=> member[n].settles
  BY <1>1, <1>2, Zenon DEF Member
<1>6. /\ DOMAIN set_node_status(n, s) = DOMAIN member /\ set_node_status(n, s)[n] = r
      /\ \A k \in DOMAIN member : k # n => set_node_status(n, s)[k] = member[k]
  BY <1>1 DEF set_node_status
<1> QED BY <1>3, <1>4, <1>5, <1>6 DEF TypeOK

\* The event that a commit makes visible.
LEMMA LoggedGrows ==
    ASSUME Inv, NEW c \in Clients, tx[c].pc = "written", events' = events \cup {Logged(c)},
           nextEvent' = nextEvent, DOMAIN maps \subseteq DOMAIN maps', DOMAIN member \subseteq DOMAIN member',
           tx[c].map \in DOMAIN maps', tx[c].map \in Ids, tx[c].node # None => tx[c].node \in DOMAIN member'
    PROVE  /\ EventsGrow
           /\ Logged(c).id = tx[c].event /\ Logged(c).map = tx[c].map /\ Logged(c).node = tx[c].node
<1>1. tx[c] \in TxType /\ nextEvent \in Nat /\ tx[c].event \in 1..nextEvent - 1
  BY DEF Inv, Tables, CallOK, DrawnFits
<1>2. Logged(c).id = tx[c].event /\ Logged(c).map = tx[c].map /\ Logged(c).node = tx[c].node
  BY DEF Logged
<1>3. Logged(c) \in Event
  BY <1>1 DEF Logged, Event, TxType
<1>4. PICK e \in Event : e = Logged(c)
  BY <1>3
<1>5. events' = events \cup {e} /\ e.id = tx[c].event /\ e.map = tx[c].map /\ e.node = tx[c].node
  BY <1>2, <1>4
<1>6. EventsGrow
  BY <1>1, <1>5, OneEvent
<1> QED BY <1>2, <1>6

LEMMA OpenInv == ASSUME Inv, NEW c \in Clients, OpenCommit(c) PROVE Inv'
<1>0. TypeOK /\ Tables /\ tx[c] \in TxType /\ clock \in Nat
  BY DEF Inv, Tables
<1>1. tx[c].pc = "written" /\ tx[c].op = "open"
  BY DEF OpenCommit
<1>2. /\ tx[c].map = tx[c].node /\ tx[c].node \in Ids /\ tx[c].node \notin DOMAIN member
      /\ tx[c].node \notin DOMAIN maps /\ tx[c].seed \in Seeds /\ tx[c].at \in 1..clock
  BY <1>0, <1>1 DEF Inv, CallOK, DrawnFits, ArgsFit, Adds, Tables
<1>3. PICK row : row = [state |-> "live", seed |-> tx[c].seed, writes_since_review |-> 0,
                        last_owner_write_at |-> 0, last_agent_read_at |-> 0]
  OBVIOUS
<1>4. row \in Map
  BY <1>2, <1>3 DEF Map
<1>5. PICK n \in Member : n = insert_membership(c, "null")
  BY <1>0, <1>2, NewRow
<1>6. n.map = tx[c].map /\ n.added_at = tx[c].at
  BY <1>0, <1>2, <1>5, NewRow
<1>7. /\ maps' = With(maps, tx[c].map, row) /\ member' = With(member, tx[c].node, n)
      /\ events' = events \cup {Logged(c)} /\ tx' = [tx EXCEPT ![c] = Idle]
      /\ UNCHANGED <<clock, nextId, nextEvent, cursor, told, reviewed, promoted>>
  BY <1>3, <1>5 DEF OpenCommit, Sequences, History
<1>8. /\ DOMAIN maps' = DOMAIN maps \cup {tx[c].map} /\ DOMAIN member' = DOMAIN member \cup {tx[c].node}
      /\ \A m \in DOMAIN maps' : maps'[m] \in Map
      /\ \A k \in DOMAIN member : member'[k] = member[k]
      /\ member'[tx[c].node] = n
  BY <1>0, <1>2, <1>4, <1>7 DEF TypeOK, With
<1>9. EventsGrow
  BY <1>1, <1>2, <1>7, <1>8, LoggedGrows
<1>10. \A k \in DOMAIN member' : /\ member'[k] \in Member /\ member'[k].map \in DOMAIN maps'
                                 /\ member'[k].added_at \in 1..clock
  BY <1>0, <1>2, <1>6, <1>8 DEF TypeOK
<1>11. DOMAIN maps' \subseteq DOMAIN member' /\ reviewed' \subseteq DOMAIN member'
  BY <1>0, <1>2, <1>7, <1>8 DEF Tables, TypeOK
<1>12. /\ told' \in [Clients -> SUBSET Nat] /\ \A d \in Clients : told'[d] \subseteq {e.id : e \in events'}
       /\ cursor' \in [Clients -> [Ids -> Nat]]
  BY <1>0, <1>7 DEF Tables, TypeOK
<1> QED BY <1>1, <1>7, <1>8, <1>9, <1>10, <1>11, <1>12, IdleType, TableStep DEF Adds

\* The counter and the owner's time of a row of memory_maps.
LEMMA MapRow ==
    ASSUME TypeOK, NEW m \in DOMAIN maps, NEW r, r \in Map, NEW M, M = [maps EXCEPT ![m] = r]
    PROVE  DOMAIN M = DOMAIN maps /\ \A k \in DOMAIN M : M[k] \in Map
BY DEF TypeOK

LEMMA WriteNodeInv == ASSUME Inv, NEW c \in Clients, WriteNodeCommit(c) PROVE Inv'
<1>0. TypeOK /\ Tables /\ tx[c] \in TxType /\ clock \in Nat
  BY DEF Inv, Tables
<1>1. tx[c].pc = "written" /\ tx[c].op \in Writes
  BY DEF WriteNodeCommit, Writes
<1>2. /\ tx[c].map \in DOMAIN maps /\ tx[c].map \in Ids /\ tx[c].node \in Ids /\ tx[c].node \notin DOMAIN member
      /\ tx[c].at \in 1..clock /\ Adds(tx[c].op)
  BY <1>0, <1>1 DEF Inv, CallOK, DrawnFits, ArgsFit, Adds, TypeOK, Writes
<1>3. PICK m, count : m = tx[c].map /\ count = maps[m].writes_since_review + 1
  OBVIOUS
<1>4. PICK r : r = [maps[m] EXCEPT !.writes_since_review = count, !.last_owner_write_at = OwnerWrite(c, m)]
  OBVIOUS
<1>5. r \in Map
  <2>1. maps[m] \in Map /\ tx[c].at \in Nat
    BY <1>0, <1>2, <1>3 DEF TypeOK, TxType
  <2>2. count \in Nat /\ OwnerWrite(c, m) \in Nat
    BY <1>3, <2>1 DEF Map, OwnerWrite
  <2> QED BY <1>4, <2>1, <2>2 DEF Map
<1>5a. tx[c].turn \in Parties \cup {"null"}
  BY <1>0 DEF TxType
<1>6. PICK n \in Member : n = insert_membership(c, tx[c].turn)
  BY <1>0, <1>2, <1>5a, NewRow
<1>7. n.map = tx[c].map /\ n.added_at = tx[c].at
  BY <1>0, <1>2, <1>5a, <1>6, NewRow
<1>8. PICK u : u = IF count >= Threshold THEN [tx[c] EXCEPT !.pc = "flag"] ELSE Idle
  OBVIOUS
<1>9. /\ maps' = [maps EXCEPT ![m] = r] /\ member' = With(member, tx[c].node, n)
      /\ events' = events \cup {Logged(c)} /\ tx' = [tx EXCEPT ![c] = u]
      /\ UNCHANGED <<clock, nextId, nextEvent, cursor, told, reviewed, promoted>>
  BY <1>2, <1>3, <1>4, <1>6, <1>8 DEF WriteNodeCommit, Sequences, History
<1>10. DOMAIN maps' = DOMAIN maps /\ \A k \in DOMAIN maps' : maps'[k] \in Map
  BY <1>0, <1>2, <1>3, <1>5, <1>9, MapRow
<1>11. /\ DOMAIN member' = DOMAIN member \cup {tx[c].node}
       /\ \A k \in DOMAIN member : member'[k] = member[k]
       /\ member'[tx[c].node] = n
  BY <1>2, <1>9 DEF With
<1>12. EventsGrow
  BY <1>1, <1>2, <1>9, <1>10, <1>11, LoggedGrows
<1>13. \A k \in DOMAIN member' : /\ member'[k] \in Member /\ member'[k].map \in DOMAIN maps'
                                 /\ member'[k].added_at \in 1..clock
  BY <1>0, <1>2, <1>7, <1>10, <1>11 DEF TypeOK
<1>14. /\ DOMAIN maps' \subseteq DOMAIN member' /\ reviewed' \subseteq DOMAIN member'
       /\ told' \in [Clients -> SUBSET Nat] /\ \A d \in Clients : told'[d] \subseteq {e.id : e \in events'}
       /\ cursor' \in [Clients -> [Ids -> Nat]]
  BY <1>0, <1>9, <1>10, <1>11 DEF Tables, TypeOK
<1>15. u \in TxType /\ u.pc # "written" /\ (u.pc # "idle" => PcFits(u) /\ ArgsFit(u)' /\ DrawnFits(u)')
  <2>1. CASE u = Idle
    BY <2>1, IdleType
  <2>2. CASE u = [tx[c] EXCEPT !.pc = "flag"]
    <3>1. u \in TxType
      BY <1>0, <2>2 DEF TxType, PCs
    <3>2. u.pc = "flag" /\ u.op = tx[c].op /\ u.map = tx[c].map /\ u.question = tx[c].question /\ u.status = tx[c].status
      BY <1>0, <2>2 DEF TxType
    <3>3. ArgsFit(tx[c])
      BY <1>1 DEF Inv, CallOK
    <3> QED BY <1>1, <1>2, <1>10, <3>1, <3>2, <3>3 DEF PcFits, ArgsFit, DrawnFits, Writes
  <2> QED BY <1>8, <2>1, <2>2
<1> QED BY <1>1, <1>2, <1>9, <1>10, <1>11, <1>12, <1>13, <1>14, <1>15, TableStep

\* The rows after an answer: only the status of the question changes.
LEMMA AnswerRows ==
    ASSUME Inv, NEW c \in Clients, AnswerCommit(c)
    PROVE  /\ tx[c].pc = "written" /\ tx[c].op = "answer" /\ Adds(tx[c].op)
           /\ tx[c].map \in DOMAIN maps /\ tx[c].map \in Ids /\ tx[c].node \in Ids
           /\ tx[c].node \notin DOMAIN member /\ tx[c].question \in DOMAIN member
           /\ tx[c].status \in {"open", "resolved"} /\ tx[c].at \in 1..clock
           /\ DOMAIN member' = DOMAIN member \cup {tx[c].node}
           /\ member'[tx[c].node] = insert_membership(c, "model")
           /\ \A k \in DOMAIN member :
                /\ member'[k] \in Member
                /\ k # tx[c].question => member'[k] = member[k]
                /\ member'[k].map = member[k].map
                /\ member'[k].authored_by = member[k].authored_by
                /\ member'[k].turn = member[k].turn
                /\ member'[k].added_at = member[k].added_at
                /\ member'[k].answers = member[k].answers
                /\ member'[k].settles <=> member[k].settles
           /\ member'[tx[c].question].status =
                 IF tx[c].status = "open" THEN member[tx[c].question].status ELSE "resolved"
<1>0. TypeOK /\ Tables /\ tx[c] \in TxType
  BY DEF Inv, Tables
<1>1. tx[c].pc = "written" /\ tx[c].op = "answer"
  BY DEF AnswerCommit
<1>2. /\ tx[c].map \in DOMAIN maps /\ tx[c].map \in Ids /\ tx[c].node \in Ids /\ tx[c].node \notin DOMAIN member
      /\ tx[c].at \in 1..clock /\ Adds(tx[c].op) /\ tx[c].question \in DOMAIN member
      /\ tx[c].status \in {"open", "resolved"}
  BY <1>0, <1>1 DEF Inv, CallOK, DrawnFits, ArgsFit, Adds, TypeOK
<1>3. PICK s \in AnyStatus : s = tx[c].status
  BY <1>2 DEF AnyStatus
<1>4. PICK q \in DOMAIN member : q = tx[c].question
  BY <1>2
<1>5. PICK f : f = IF s = "open" THEN member ELSE set_node_status(q, s)
  OBVIOUS
<1>6. PICK n : n = insert_membership(c, "model")
  OBVIOUS
<1>7. member' = With(f, tx[c].node, n)
  BY <1>3, <1>4, <1>5, <1>6 DEF AnswerCommit
<1>8. /\ DOMAIN f = DOMAIN member
      /\ \A k \in DOMAIN member :
                /\ f[k] \in Member
                /\ k # q => f[k] = member[k]
                /\ f[k].map = member[k].map
                /\ f[k].authored_by = member[k].authored_by
                /\ f[k].turn = member[k].turn
                /\ f[k].added_at = member[k].added_at
                /\ f[k].answers = member[k].answers
                /\ f[k].settles <=> member[k].settles
      /\ f[q].status = IF s = "open" THEN member[q].status ELSE s
  <2>1. CASE s = "open"
    BY <1>0, <1>5, <2>1 DEF TypeOK
  <2>2. CASE s # "open"
    <3>1. f = set_node_status(q, s)
      BY <1>5, <2>2
    <3> QED BY <1>0, <1>4, <2>2, <3>1, StatusRow
  <2> QED BY <2>1, <2>2
<1>9. /\ DOMAIN member' = DOMAIN f \cup {tx[c].node} /\ member'[tx[c].node] = n
      /\ \A k \in DOMAIN f : k # tx[c].node => member'[k] = f[k]
  BY <1>7 DEF With
<1>10. \A k \in DOMAIN member : member'[k] = f[k]
  BY <1>2, <1>8, <1>9
<1> QED BY <1>1, <1>2, <1>3, <1>4, <1>6, <1>8, <1>9, <1>10

LEMMA AnswerInv == ASSUME Inv, NEW c \in Clients, AnswerCommit(c) PROVE Inv'
<1>0. TypeOK /\ Tables /\ tx[c] \in TxType /\ clock \in Nat
  BY DEF Inv, Tables
<1>1. /\ tx[c].pc = "written" /\ tx[c].op = "answer" /\ Adds(tx[c].op)
      /\ tx[c].map \in DOMAIN maps /\ tx[c].map \in Ids /\ tx[c].node \in Ids /\ tx[c].at \in 1..clock
      /\ DOMAIN member' = DOMAIN member \cup {tx[c].node}
      /\ member'[tx[c].node] = insert_membership(c, "model")
      /\ \A k \in DOMAIN member : /\ member'[k] \in Member /\ member'[k].map = member[k].map
                                  /\ member'[k].added_at = member[k].added_at
  BY AnswerRows
<1>2. PICK m : m = tx[c].map
  OBVIOUS
<1>4. PICK r : r = [maps[m] EXCEPT !.last_owner_write_at = OwnerWrite(c, m)]
  OBVIOUS
<1>5. r \in Map
  <2>1. maps[m] \in Map /\ tx[c].at \in Nat
    BY <1>0, <1>1, <1>2 DEF TypeOK, TxType
  <2>2. OwnerWrite(c, m) \in Nat
    BY <2>1 DEF Map, OwnerWrite
  <2> QED BY <1>4, <2>1, <2>2 DEF Map
<1>6. PICK n \in Member : n = insert_membership(c, "model")
  BY <1>0, <1>1, NewRow DEF Parties
<1>7. n.map = tx[c].map /\ n.added_at = tx[c].at
  BY <1>0, <1>1, <1>6, NewRow DEF Parties
<1>9. /\ maps' = [maps EXCEPT ![m] = r]
      /\ events' = events \cup {Logged(c)} /\ tx' = [tx EXCEPT ![c] = Idle]
      /\ UNCHANGED <<clock, nextId, nextEvent, told, reviewed, promoted>> /\ KeepCursor(c)
  BY <1>1, <1>2, <1>4 DEF AnswerCommit, Sequences, History
<1>10. DOMAIN maps' = DOMAIN maps /\ \A k \in DOMAIN maps' : maps'[k] \in Map
  BY <1>0, <1>1, <1>2, <1>5, <1>9, MapRow
<1>12. EventsGrow
  BY <1>1, <1>9, <1>10, LoggedGrows
<1>13. \A k \in DOMAIN member' : /\ member'[k] \in Member /\ member'[k].map \in DOMAIN maps'
                                 /\ member'[k].added_at \in 1..clock
  BY <1>0, <1>1, <1>6, <1>7, <1>10 DEF TypeOK
<1>14. /\ DOMAIN maps' \subseteq DOMAIN member' /\ reviewed' \subseteq DOMAIN member'
       /\ told' \in [Clients -> SUBSET Nat] /\ \A d \in Clients : told'[d] \subseteq {e.id : e \in events'}
  BY <1>0, <1>1, <1>9, <1>10 DEF Tables, TypeOK
<1>15. cursor' \in [Clients -> [Ids -> Nat]]
  BY <1>0, <1>9 DEF KeepCursor, TypeOK, TxType
<1> QED BY <1>1, <1>9, <1>10, <1>12, <1>13, <1>14, <1>15, IdleType, TableStep

\* Resolving a branch changes its status only.
LEMMA ResolveRows ==
    ASSUME Inv, NEW c \in Clients, ResolveCommit(c)
    PROVE  /\ tx[c].pc = "written" /\ tx[c].op = "resolve"
           /\ tx[c].map \in DOMAIN maps /\ tx[c].map \in Ids /\ tx[c].node \in DOMAIN member
           /\ member[tx[c].node].map = tx[c].map
           /\ tx[c].status \in {"resolved", "dropped"}
           /\ DOMAIN member' = DOMAIN member
           /\ \A k \in DOMAIN member :
                /\ member'[k] \in Member
                /\ k # tx[c].node => member'[k] = member[k]
                /\ member'[k].map = member[k].map
                /\ member'[k].authored_by = member[k].authored_by
                /\ member'[k].turn = member[k].turn
                /\ member'[k].added_at = member[k].added_at
                /\ member'[k].answers = member[k].answers
                /\ member'[k].settles <=> member[k].settles
           /\ member'[tx[c].node].status = tx[c].status
<1>0. TypeOK /\ tx[c] \in TxType
  BY DEF Inv, Tables
<1>1. tx[c].pc = "written" /\ tx[c].op = "resolve" /\ member' = set_node_status(tx[c].node, tx[c].status)
  BY DEF ResolveCommit
<1>2. /\ tx[c].map \in DOMAIN maps /\ tx[c].map \in Ids /\ tx[c].node \in DOMAIN member
      /\ tx[c].status \in {"resolved", "dropped"} /\ member[tx[c].node].map = tx[c].map
  BY <1>0, <1>1 DEF Inv, CallOK, ArgsFit, TypeOK
<1>3. PICK n \in DOMAIN member, s \in AnyStatus : n = tx[c].node /\ s = tx[c].status
  BY <1>2 DEF AnyStatus
<1>4. member' = set_node_status(n, s)
  BY <1>1, <1>3
<1> QED BY <1>0, <1>1, <1>2, <1>3, <1>4, StatusRow

LEMMA ResolveInv == ASSUME Inv, NEW c \in Clients, ResolveCommit(c) PROVE Inv'
<1>0. TypeOK /\ Tables /\ tx[c] \in TxType /\ clock \in Nat
  BY DEF Inv, Tables
<1>1. /\ tx[c].pc = "written" /\ tx[c].map \in DOMAIN maps /\ tx[c].map \in Ids /\ tx[c].node \in DOMAIN member
      /\ DOMAIN member' = DOMAIN member
      /\ \A k \in DOMAIN member : /\ member'[k] \in Member /\ member'[k].map = member[k].map
                                  /\ member'[k].added_at = member[k].added_at
  BY ResolveRows
<1>2. /\ events' = events \cup {Logged(c)} /\ tx' = [tx EXCEPT ![c] = Idle]
      /\ UNCHANGED <<maps, clock, nextId, nextEvent, told, reviewed, promoted>> /\ KeepCursor(c)
  BY DEF ResolveCommit, Sequences, History
<1>3. EventsGrow
  BY <1>1, <1>2, LoggedGrows
<1>4. \A k \in DOMAIN member' : /\ member'[k] \in Member /\ member'[k].map \in DOMAIN maps'
                                /\ member'[k].added_at \in 1..clock
  BY <1>0, <1>1, <1>2 DEF TypeOK
<1>5. /\ DOMAIN maps' \subseteq DOMAIN member' /\ reviewed' \subseteq DOMAIN member'
      /\ told' \in [Clients -> SUBSET Nat] /\ \A d \in Clients : told'[d] \subseteq {e.id : e \in events'}
      /\ \A m \in DOMAIN maps' : maps'[m] \in Map
  BY <1>0, <1>1, <1>2 DEF Tables, TypeOK
<1>6. cursor' \in [Clients -> [Ids -> Nat]]
  BY <1>0, <1>2 DEF KeepCursor, TypeOK, TxType
<1> QED BY <1>1, <1>2, <1>3, <1>4, <1>5, <1>6, IdleType, TableStep

LEMMA CloseInv == ASSUME Inv, NEW c \in Clients, CloseCommit(c) PROVE Inv'
<1>0. TypeOK /\ Tables /\ tx[c] \in TxType /\ clock \in Nat
  BY DEF Inv, Tables
<1>1. tx[c].pc = "written" /\ tx[c].map \in DOMAIN maps /\ tx[c].map \in Ids /\ tx[c].node = None
  BY <1>0 DEF CloseCommit, Inv, CallOK, ArgsFit, TypeOK
<1>2. PICK r : r = [maps[tx[c].map] EXCEPT !.state = "archived"]
  OBVIOUS
<1>3. r \in Map
  BY <1>0, <1>1, <1>2 DEF TypeOK, Map
<1>4. /\ maps' = [maps EXCEPT ![tx[c].map] = r] /\ events' = events \cup {Logged(c)} /\ tx' = [tx EXCEPT ![c] = Idle]
      /\ UNCHANGED <<member, clock, nextId, nextEvent, cursor, told, reviewed, promoted>>
  BY <1>1, <1>2 DEF CloseCommit, Sequences, History
<1>5. DOMAIN maps' = DOMAIN maps /\ \A k \in DOMAIN maps' : maps'[k] \in Map
  BY <1>0, <1>1, <1>3, <1>4 DEF TypeOK
<1>6. EventsGrow
  BY <1>1, <1>4, <1>5, LoggedGrows
<1>7. \A k \in DOMAIN member' : /\ member'[k] \in Member /\ member'[k].map \in DOMAIN maps'
                                /\ member'[k].added_at \in 1..clock
  BY <1>0, <1>4, <1>5 DEF TypeOK
<1>8. /\ DOMAIN maps' \subseteq DOMAIN member' /\ reviewed' \subseteq DOMAIN member'
      /\ told' \in [Clients -> SUBSET Nat] /\ \A d \in Clients : told'[d] \subseteq {e.id : e \in events'}
      /\ cursor' \in [Clients -> [Ids -> Nat]]
  BY <1>0, <1>4, <1>5 DEF Tables, TypeOK
<1> QED BY <1>4, <1>5, <1>6, <1>7, <1>8, IdleType, TableStep

LEMMA TouchInv == ASSUME Inv, NEW c \in Clients, GetTouch(c) PROVE Inv'
<1>0. TypeOK /\ Tables /\ tx[c] \in TxType /\ clock \in Nat
  BY DEF Inv, Tables
<1>1. /\ tx[c].pc = "touch" /\ tx[c].map \in DOMAIN maps /\ tx[c].map \in Ids
      /\ tx[c].shown \subseteq {e.id : e \in events}
  <2>1. tx[c].pc = "touch" /\ PcFits(tx[c]) /\ ArgsFit(tx[c]) /\ DrawnFits(tx[c])
    BY DEF GetTouch, Inv, CallOK
  <2> QED BY <1>0, <2>1 DEF PcFits, ArgsFit, DrawnFits, Reads, TypeOK
<1>2. PICK r : r = [maps[tx[c].map] EXCEPT !.last_agent_read_at = tx[c].at]
  OBVIOUS
<1>3. r \in Map
  BY <1>0, <1>1, <1>2 DEF TypeOK, Map, TxType
<1>4. /\ maps' = [maps EXCEPT ![tx[c].map] = r] /\ tx' = [tx EXCEPT ![c] = Idle]
      /\ UNCHANGED <<member, events, clock, nextId, nextEvent, reviewed, promoted>>
      /\ told' = [told EXCEPT ![c] = @ \cup tx[c].shown]
      /\ cursor' = [cursor EXCEPT ![c][tx[c].map] = tx[c].cursor]
  BY <1>1, <1>2 DEF GetTouch, Sequences
<1>5. DOMAIN maps' = DOMAIN maps /\ \A k \in DOMAIN maps' : maps'[k] \in Map
  BY <1>0, <1>1, <1>3, <1>4 DEF TypeOK
<1>6. EventsGrow
  BY <1>0, <1>4, <1>5 DEF TypeOK, Tables, EventsGrow
<1>7. \A k \in DOMAIN member' : /\ member'[k] \in Member /\ member'[k].map \in DOMAIN maps'
                                /\ member'[k].added_at \in 1..clock
  BY <1>0, <1>4, <1>5 DEF TypeOK
<1>8. DOMAIN maps' \subseteq DOMAIN member' /\ reviewed' \subseteq DOMAIN member'
  BY <1>0, <1>4, <1>5 DEF Tables, TypeOK
<1>9. told' \in [Clients -> SUBSET Nat] /\ \A d \in Clients : told'[d] \subseteq {e.id : e \in events'}
  <2>1. \A d \in Clients : told'[d] = IF d = c THEN told[d] \cup tx[c].shown ELSE told[d]
    BY <1>0, <1>4 DEF Tables
  <2>2. tx[c].shown \subseteq Nat
    BY <1>0 DEF TxType
  <2>3. told' \in [Clients -> SUBSET Nat]
    BY <1>0, <1>4, <2>2 DEF Tables
  <2> QED BY <1>0, <1>1, <1>4, <2>1, <2>3 DEF TypeOK
<1>10. cursor' \in [Clients -> [Ids -> Nat]]
  BY <1>0, <1>4 DEF TypeOK, TxType
<1> QED BY <1>4, <1>5, <1>6, <1>7, <1>8, <1>9, <1>10, IdleType, TableStep

LEMMA ResetInv == ASSUME Inv, NEW c \in Clients, ReviewReset(c) PROVE Inv'
<1>0. TypeOK /\ Tables /\ tx[c] \in TxType /\ clock \in Nat /\ nextEvent \in Nat
  BY DEF Inv, Tables
<1>1. tx[c].pc = "reset" /\ tx[c].map \in DOMAIN maps /\ tx[c].map \in Ids /\ tx[c].ids \subseteq DOMAIN member
  <2>1. tx[c].pc = "reset" /\ PcFits(tx[c]) /\ ArgsFit(tx[c]) /\ DrawnFits(tx[c])
    BY DEF ReviewReset, Inv, CallOK
  <2> QED BY <1>0, <2>1 DEF PcFits, ArgsFit, DrawnFits, TypeOK
<1>2. PICK r : r = [maps[tx[c].map] EXCEPT !.writes_since_review = 0]
  OBVIOUS
<1>3. r \in Map
  BY <1>0, <1>1, <1>2 DEF TypeOK, Map
<1>4. PICK e : e = [id |-> nextEvent, map |-> tx[c].map, node |-> None]
  OBVIOUS
<1>5. e \in Event /\ e.id = nextEvent /\ e.map = tx[c].map /\ e.node = None
  BY <1>0, <1>1, <1>4 DEF Event
<1>6. /\ maps' = [maps EXCEPT ![tx[c].map] = r] /\ tx' = [tx EXCEPT ![c] = Idle]
      /\ events' = events \cup {e} /\ nextEvent' = nextEvent + 1 /\ reviewed' = reviewed \cup tx[c].ids
      /\ UNCHANGED <<member, clock, nextId, cursor, told, promoted>>
  BY <1>1, <1>2, <1>4 DEF ReviewReset
<1>7. DOMAIN maps' = DOMAIN maps /\ \A k \in DOMAIN maps' : maps'[k] \in Map
  BY <1>0, <1>1, <1>3, <1>6 DEF TypeOK
<1>8. EventsGrow
  BY <1>0, <1>1, <1>5, <1>6, <1>7, OneEvent
<1>9. \A k \in DOMAIN member' : /\ member'[k] \in Member /\ member'[k].map \in DOMAIN maps'
                                /\ member'[k].added_at \in 1..clock
  BY <1>0, <1>6, <1>7 DEF TypeOK
<1>10. /\ DOMAIN maps' \subseteq DOMAIN member' /\ reviewed' \subseteq DOMAIN member'
       /\ told' \in [Clients -> SUBSET Nat] /\ \A d \in Clients : told'[d] \subseteq {f.id : f \in events'}
       /\ cursor' \in [Clients -> [Ids -> Nat]]
  BY <1>0, <1>1, <1>6, <1>7 DEF Tables, TypeOK
<1> QED BY <1>6, <1>7, <1>8, <1>9, <1>10, IdleType, TableStep

LEMMA StepInv == ASSUME Inv, [Next]_vars PROVE Inv'
<1>1. CASE Next
  <2>1. PICK c \in Clients : Check(c) \/ Step(c) \/ Commit(c) \/ Rollback(c)
    BY <1>1 DEF Next
  <2>2. CASE Step(c)
    BY <2>2, GraphInv, GetInv, EventInv, TouchInv, ResetInv DEF Step
  <2>3. CASE Commit(c)
    BY <2>3, OpenInv, WriteNodeInv, AnswerInv, ResolveInv, EventInv, CloseInv DEF Commit
  <2> QED BY <2>1, <2>2, <2>3, CheckInv, RollbackInv
<1>2. CASE UNCHANGED vars
  <2>1. /\ UNCHANGED <<maps, member, events, tx, clock, nextId, nextEvent, cursor, told, reviewed, promoted>>
    BY <1>2 DEF vars
  <2>2. TypeOK' /\ Tables' /\ Distinct'
    BY <2>1 DEF Inv, TypeOK, Tables, Distinct
  <2>3. \A c \in Clients : CallOK(c)'
    BY <2>1 DEF Inv, CallOK, PcFits, ArgsFit, DrawnFits
  <2> QED BY <2>2, <2>3 DEF Inv
<1> QED BY <1>1, <1>2

\* The tables of the maps are well-formed after every step of every call: rows
\* belong to maps that exist, times and event ids are of the past.
THEOREM TypeCorrect == Spec => []TypeOK
<1>1. Inv => TypeOK
  BY DEF Inv
<1> QED BY <1>1, InitInv, StepInv, PTL DEF Spec

----------------------------------------------------------------------------
(* What a step of a client may change.                                       *)

Act(c) == Check(c) \/ Step(c) \/ Commit(c) \/ Rollback(c)

\* A call begins, ends, or goes on as the call it was.
LEMMA CallFrame ==
    ASSUME Inv, NEW c \in Clients, Act(c)
    PROVE  /\ \A d \in Clients : d # c => tx'[d] = tx[d]
           /\ \/ tx'[c] = Idle
              \/ /\ tx[c].pc = "idle" /\ Check(c)
                 /\ \A d \in Clients : d # c => tx[d].pc = "idle" \/ {tx'[c].op, tx[d].op} \cap Solo = {}
              \/ /\ tx[c].pc # "idle" /\ tx'[c].pc # "idle"
                 /\ tx'[c].op = tx[c].op /\ tx'[c].seed = tx[c].seed /\ tx'[c].question = tx[c].question
                 /\ tx'[c].status = tx[c].status /\ tx'[c].party = tx[c].party
                 /\ tx'[c].ids = tx[c].ids
                 /\ tx'[c].pc \in {"promoted", "begun", "written", "flag", "fetch", "touch"}
                 /\ tx'[c].map = tx[c].map \/ (tx[c].op = "open" /\ GraphWrite(c))
<1>0. tx \in [Clients -> TxType] /\ tx[c] \in TxType
  BY DEF Inv, Tables
<1>1. CASE Check(c)
  <2>1. PICK t : Start(c, t)
    BY <1>1 DEF Check, OpenCheck, WriteNodeCheck, AnswerCheck, ResolveCheck, LinkCheck, CloseCheck, GetBegin, ReviewRead
  <2> QED BY <1>0, <1>1, <2>1 DEF Start
<1>2. CASE tx' = [tx EXCEPT ![c] = Idle]
  BY <1>0, <1>2
<1>3. CASE ClosePromote(c) \/ GraphBegin(c) \/ GraphWrite(c) \/ GetHead(c) \/ GetMembers(c)
  <2>1. CASE ClosePromote(c) \/ GraphBegin(c)
    BY <1>0, <2>1 DEF ClosePromote, GraphBegin, TxType
  <2>2. CASE GraphWrite(c)
    BY <1>0, <2>2 DEF GraphWrite, TxType
  <2>3. CASE GetHead(c) \/ GetMembers(c)
    BY <1>0, <2>3 DEF GetHead, GetMembers, TxType
  <2> QED BY <1>3, <2>1, <2>2, <2>3
<1>4. CASE WriteNodeCommit(c)
  BY <1>0, <1>4 DEF WriteNodeCommit, TxType
<1>5. CASE ReviewFlag(c) \/ GetTouch(c) \/ ReviewReset(c)
  BY <1>2, <1>5 DEF ReviewFlag, GetTouch, ReviewReset
<1>6. CASE OpenCommit(c) \/ AnswerCommit(c) \/ ResolveCommit(c) \/ LinkCommit(c) \/ CloseCommit(c) \/ Rollback(c)
  BY <1>2, <1>6 DEF OpenCommit, AnswerCommit, ResolveCommit, LinkCommit, CloseCommit, Rollback
<1> QED BY <1>1, <1>3, <1>4, <1>5, <1>6 DEF Act, Step, Commit

\* The state and the seed of a map: only mindmap_close archives.
LEMMA MapFrame ==
    ASSUME Inv, NEW c \in Clients, Act(c)
    PROVE  /\ DOMAIN maps \subseteq DOMAIN maps'
           /\ \A m \in DOMAIN maps :
                /\ maps'[m].seed = maps[m].seed
                /\ \/ maps'[m].state = maps[m].state
                   \/ CloseCommit(c) /\ m = tx[c].map /\ maps'[m].state = "archived"
           /\ \A m \in DOMAIN maps' \ DOMAIN maps :
                /\ OpenCommit(c) /\ m = tx[c].map /\ m = tx[c].node /\ maps'[m].seed = tx[c].seed
                /\ maps'[m].state = "live" /\ maps'[m].writes_since_review = 0
                /\ maps'[m].last_owner_write_at = 0 /\ maps'[m].last_agent_read_at = 0
<1>0. TypeOK /\ Tables /\ \A m \in DOMAIN maps : maps[m] \in Map
  BY DEF Inv, TypeOK
<1>1. CASE OpenCommit(c)
  <2>1. /\ tx[c].map = tx[c].node /\ tx[c].node \notin DOMAIN maps
    BY <1>0, <1>1 DEF OpenCommit, Inv, CallOK, DrawnFits, Adds, Tables
  <2> QED BY <1>1, <2>1 DEF OpenCommit, With
<1>2. CASE WriteNodeCommit(c)
  BY <1>0, <1>2 DEF WriteNodeCommit, Map
<1>3. CASE AnswerCommit(c)
  BY <1>0, <1>3 DEF AnswerCommit, Map
<1>4. CASE CloseCommit(c)
  BY <1>0, <1>4 DEF CloseCommit, Map
<1>5. CASE GetTouch(c)
  BY <1>0, <1>5 DEF GetTouch, Map
<1>6. CASE ReviewReset(c)
  BY <1>0, <1>6 DEF ReviewReset, Map
<1>7. CASE UNCHANGED maps
  BY <1>7
<1>8. Check(c) => UNCHANGED maps
  BY DEF Check, OpenCheck, WriteNodeCheck, AnswerCheck, ResolveCheck, LinkCheck, CloseCheck, GetBegin, ReviewRead
<1>9. ClosePromote(c) \/ GraphBegin(c) \/ GraphWrite(c) \/ ReviewFlag(c) \/ GetHead(c) \/ GetMembers(c)
      \/ ResolveCommit(c) \/ LinkCommit(c) \/ Rollback(c) => UNCHANGED maps
  BY DEF ClosePromote, GraphBegin, GraphWrite, ReviewFlag, GetHead, GetMembers, ResolveCommit, LinkCommit, Rollback
<1> QED BY <1>1, <1>2, <1>3, <1>4, <1>5, <1>6, <1>7, <1>8, <1>9 DEF Act, Step, Commit

\* The row of a node never changes but for its status, which answers and
\* resolutions set; a new row is the node of the call.
SameRow(r, s) ==
    /\ r.map = s.map /\ r.authored_by = s.authored_by /\ r.turn = s.turn /\ r.added_at = s.added_at
    /\ r.answers = s.answers /\ (r.settles <=> s.settles)

LEMMA MemberFrame ==
    ASSUME Inv, NEW c \in Clients, Act(c)
    PROVE  /\ DOMAIN member \subseteq DOMAIN member'
           /\ \A n \in DOMAIN member :
                /\ SameRow(member'[n], member[n])
                /\ \/ member'[n].status = member[n].status
                   \/ /\ (AnswerCommit(c) /\ n = tx[c].question) \/ (ResolveCommit(c) /\ n = tx[c].node)
                      /\ member'[n].status = tx[c].status /\ tx[c].status \in {"resolved", "dropped"}
           /\ \A n \in DOMAIN member' \ DOMAIN member :
                /\ OpenCommit(c) \/ WriteNodeCommit(c) \/ AnswerCommit(c)
                /\ n = tx[c].node
                /\ member'[n].map = tx[c].map /\ member'[n].authored_by = tx[c].party
                /\ member'[n].added_at = tx[c].at /\ member'[n].answers = tx[c].question
                /\ member'[n].settles <=> tx[c].status = "resolved"
                /\ member'[n].status = "open"
<1>0. TypeOK /\ Tables /\ tx[c] \in TxType
  BY DEF Inv, Tables
<1>1. CASE OpenCommit(c) \/ WriteNodeCommit(c)
  <2>1. PICK turn \in Parties \cup {"null"} : member' = With(member, tx[c].node, insert_membership(c, turn))
    BY <1>0, <1>1 DEF OpenCommit, WriteNodeCommit, TxType
  <2>2. tx[c].pc = "written" /\ tx[c].op \in Writes \cup {"open"}
    BY <1>1 DEF OpenCommit, WriteNodeCommit, Writes
  <2>3. tx[c].node \notin DOMAIN member /\ tx[c].map \in Ids
    BY <1>0, <2>2 DEF Inv, CallOK, DrawnFits, ArgsFit, Adds, TypeOK, Writes
  <2>4. PICK n : n = insert_membership(c, turn)
    OBVIOUS
  <2>5. /\ n.map = tx[c].map /\ n.authored_by = tx[c].party /\ n.added_at = tx[c].at
        /\ n.answers = tx[c].question /\ (n.settles <=> tx[c].status = "resolved") /\ n.status = "open"
    BY <1>0, <2>1, <2>3, <2>4, NewRow
  <2>6. /\ DOMAIN member' = DOMAIN member \cup {tx[c].node} /\ member'[tx[c].node] = n
        /\ \A k \in DOMAIN member : member'[k] = member[k]
    BY <2>1, <2>3, <2>4 DEF With
  <2> QED BY <1>1, <2>5, <2>6 DEF SameRow
<1>2. CASE AnswerCommit(c)
  <2>1. PICK n : n = insert_membership(c, "model")
    OBVIOUS
  <2>2. tx[c].map \in Ids
    BY <1>2, AnswerRows
  <2>3. /\ n.map = tx[c].map /\ n.authored_by = tx[c].party /\ n.added_at = tx[c].at
        /\ n.answers = tx[c].question /\ (n.settles <=> tx[c].status = "resolved") /\ n.status = "open"
    BY <1>0, <2>1, <2>2, NewRow DEF Parties
  <2>4. \A k \in DOMAIN member :
           \/ member'[k].status = member[k].status
           \/ k = tx[c].question /\ member'[k].status = tx[c].status /\ tx[c].status = "resolved"
    <3>1. tx[c].status \in {"open", "resolved"} /\ \A k \in DOMAIN member : k # tx[c].question => member'[k] = member[k]
      BY <1>2, AnswerRows
    <3>2. member'[tx[c].question].status =
             IF tx[c].status = "open" THEN member[tx[c].question].status ELSE "resolved"
      BY <1>2, AnswerRows
    <3> QED BY <3>1, <3>2
  <2>5. \A k \in DOMAIN member : SameRow(member'[k], member[k])
    BY <1>2, AnswerRows DEF SameRow
  <2>6. DOMAIN member' = DOMAIN member \cup {tx[c].node} /\ member'[tx[c].node] = n
    BY <1>2, <2>1, AnswerRows
  <2> QED BY <1>2, <2>3, <2>4, <2>5, <2>6
<1>3. CASE ResolveCommit(c)
  BY <1>3, ResolveRows DEF SameRow
<1>4. CASE UNCHANGED member
  BY <1>4 DEF SameRow
<1>5. Check(c) => UNCHANGED member
  BY DEF Check, OpenCheck, WriteNodeCheck, AnswerCheck, ResolveCheck, LinkCheck, CloseCheck, GetBegin, ReviewRead
<1>6. Step(c) \/ LinkCommit(c) \/ CloseCommit(c) \/ Rollback(c) => UNCHANGED member
  BY DEF Step, ClosePromote, GraphBegin, GraphWrite, ReviewFlag, GetHead, GetMembers, GetTouch, ReviewReset,
         LinkCommit, CloseCommit, Rollback
<1> QED BY <1>1, <1>2, <1>3, <1>4, <1>5, <1>6 DEF Act, Commit

\* What a call that begins has checked, and that it changes nothing else.
Checked(c, t) ==
    /\ t.pc \in {"checked", "begun", "head", "fetch", "reset"}
    /\ t.pc = "begun" => t.op \in {"resolve", "link"}
    /\ t.pc \in {"head", "fetch"} => t.op \in Reads
    /\ t.op \in Writes \cup {"answer", "resolve", "close"} => t.map \in LiveMaps
    /\ t.op = "open" /\ t.seed # None => find_live_map_seeded_from(t.seed) = {}
    /\ t.op = "answer" => member[t.question].status = "open"
    /\ t.op = "close" => unacknowledged_owner_input(t.map) = {}
    /\ t.pc = "reset" => t.op = "review" /\ t.ids = ReviewNodes(t.map)
    /\ t.party = "owner" => t.op \in {"write_owner", "answer"}
    /\ t.op \in Reads => /\ t.cursor = current_cursor(t.map, {})
                         /\ t.op = "get_since" => t.ids = fetch_memory_ids_since(t.map, cursor[c][t.map])
    /\ t.op \in Ops /\ (c \in Web => t.op \in WebOps)

LEMMA CheckFrame ==
    ASSUME Inv, NEW c \in Clients, Check(c)
    PROVE  /\ UNCHANGED <<maps, member, events, nextId, nextEvent, cursor, told, reviewed, promoted>>
           /\ \E t \in TxType : tx' = [tx EXCEPT ![c] = t] /\ Checked(c, t)
           /\ clock' = clock \/ clock' = Now
<1>0. UNCHANGED <<maps, member, events, nextId, nextEvent, cursor, told, reviewed, promoted>> /\ (clock' = clock \/ clock' = Now)
  BY DEF Check, OpenCheck, WriteNodeCheck, AnswerCheck, ResolveCheck, LinkCheck, CloseCheck, GetBegin, ReviewRead,
         Sequences, History
<1>1. tx' \in [Clients -> TxType]
  BY CheckInv DEF Inv, Tables
<1>2. ASSUME NEW t, Start(c, t), Checked(c, t)
      PROVE  \E u \in TxType : tx' = [tx EXCEPT ![c] = u] /\ Checked(c, u)
  <2>1. tx' = [tx EXCEPT ![c] = t] /\ tx \in [Clients -> TxType]
    BY <1>2 DEF Start, Inv, Tables
  <2>2. tx'[c] = t
    BY <2>1
  <2> QED BY <1>1, <1>2, <2>1, <2>2
<1>3. CASE OpenCheck(c)
  <2>1. PICK s \in Seeds : (s # None => find_live_map_seeded_from(s) = {}) /\ Start(c, [Idle EXCEPT !.pc = "checked", !.op = "open", !.seed = s])
    BY <1>3 DEF OpenCheck
  <2>2. PICK t : t = [Idle EXCEPT !.pc = "checked", !.op = "open", !.seed = s]
    OBVIOUS
  <2>3. t.pc = "checked" /\ t.op = "open" /\ t.seed = s /\ t.party = "null"
    BY <2>2 DEF Idle
  <2>4. Start(c, t)
    BY <2>1, <2>2
  <2>5. Checked(c, t)
    BY <2>1, <2>3, <2>4 DEF Checked, Start, Writes, Reads, find_live_map_seeded_from, LiveMaps, WebOps
  <2> QED BY <1>0, <1>2, <2>4, <2>5
<1>4. CASE WriteNodeCheck(c)
  <2>1. PICK m \in LiveMaps, p \in Authors, u \in Turns :
          Start(c, [Idle EXCEPT !.pc = "checked", !.map = m, !.party = p, !.turn = u,
                            !.op = IF p = "owner" THEN "write_owner" ELSE "write_model"])
    BY <1>4 DEF WriteNodeCheck
  <2>2. PICK t : t = [Idle EXCEPT !.pc = "checked", !.map = m, !.party = p, !.turn = u,
                            !.op = IF p = "owner" THEN "write_owner" ELSE "write_model"]
    OBVIOUS
  <2>3. t.pc = "checked" /\ t.map = m /\ t.party = p /\ t.op = IF p = "owner" THEN "write_owner" ELSE "write_model"
    BY <2>2 DEF Idle
  <2>4. Start(c, t)
    BY <2>1, <2>2
  <2>5. Checked(c, t)
    BY <2>1, <2>3, <2>4 DEF Checked, Start, Writes, Reads, LiveMaps, WebOps
  <2> QED BY <1>0, <1>2, <2>4, <2>5
<1>5. CASE AnswerCheck(c)
  <2>0. PICK m \in LiveMaps, p \in Parties, s \in {"open", "resolved"} : \E q \in Answerable(m) : Start(c, [Idle EXCEPT !.pc = "checked", !.map = m, !.party = p, !.question = q,
                            !.status = s, !.op = "answer"])
    BY <1>5 DEF AnswerCheck
  <2>1. PICK q \in Answerable(m) : Start(c, [Idle EXCEPT !.pc = "checked", !.map = m, !.party = p, !.question = q,
                            !.status = s, !.op = "answer"])
    BY <2>0
  <2>2. PICK t : t = [Idle EXCEPT !.pc = "checked", !.map = m, !.party = p, !.question = q,
                            !.status = s, !.op = "answer"]
    OBVIOUS
  <2>3. t.pc = "checked" /\ t.map = m /\ t.op = "answer" /\ t.question = q
    BY <2>2 DEF Idle
  <2>4. Start(c, t)
    BY <2>1, <2>2
  <2>5. Checked(c, t)
    BY <2>1, <2>3, <2>4 DEF Checked, Start, Writes, Reads, Answerable, fetch_members, Members, LiveMaps, WebOps
  <2> QED BY <1>0, <1>2, <2>4, <2>5
<1>6. CASE ResolveCheck(c)
  <2>0. PICK m \in LiveMaps, s \in {"resolved", "dropped"} : \E n \in Members(m) : Start(c, [Idle EXCEPT !.pc = "begun", !.map = m, !.node = n, !.question = n, !.status = s,
                            !.op = "resolve", !.at = Now])
    BY <1>6 DEF ResolveCheck
  <2>1. PICK n \in Members(m) : Start(c, [Idle EXCEPT !.pc = "begun", !.map = m, !.node = n, !.question = n, !.status = s,
                            !.op = "resolve", !.at = Now])
    BY <2>0
  <2>2. PICK t : t = [Idle EXCEPT !.pc = "begun", !.map = m, !.node = n, !.question = n, !.status = s,
                            !.op = "resolve", !.at = Now]
    OBVIOUS
  <2>3. t.pc = "begun" /\ t.map = m /\ t.op = "resolve" /\ t.party = "null"
    BY <2>2 DEF Idle
  <2>4. Start(c, t)
    BY <2>1, <2>2
  <2>5. Checked(c, t)
    BY <2>1, <2>3, <2>4 DEF Checked, Start, Writes, Reads, LiveMaps, WebOps
  <2> QED BY <1>0, <1>2, <2>4, <2>5
<1>7. CASE LinkCheck(c)
  <2>1. PICK m \in DOMAIN maps, n \in DOMAIN member : Start(c, [Idle EXCEPT !.pc = "begun", !.map = m, !.node = n, !.op = "link", !.at = Now])
    BY <1>7 DEF LinkCheck
  <2>2. PICK t : t = [Idle EXCEPT !.pc = "begun", !.map = m, !.node = n, !.op = "link", !.at = Now]
    OBVIOUS
  <2>3. t.pc = "begun" /\ t.op = "link" /\ t.party = "null"
    BY <2>2 DEF Idle
  <2>4. Start(c, t)
    BY <2>1, <2>2
  <2>5. Checked(c, t)
    BY <2>1, <2>3, <2>4 DEF Checked, Start, Writes, Reads, LiveMaps, WebOps
  <2> QED BY <1>0, <1>2, <2>4, <2>5
<1>8. CASE CloseCheck(c)
  <2>1. PICK m \in LiveMaps : (unacknowledged_owner_input(m) = {}) /\ Start(c, [Idle EXCEPT !.pc = "checked", !.map = m, !.op = "close"])
    BY <1>8 DEF CloseCheck
  <2>2. PICK t : t = [Idle EXCEPT !.pc = "checked", !.map = m, !.op = "close"]
    OBVIOUS
  <2>3. t.pc = "checked" /\ t.map = m /\ t.op = "close" /\ t.party = "null"
    BY <2>2 DEF Idle
  <2>4. Start(c, t)
    BY <2>1, <2>2
  <2>5. Checked(c, t)
    BY <2>1, <2>3, <2>4 DEF Checked, Start, Writes, Reads, LiveMaps, WebOps
  <2> QED BY <1>0, <1>2, <2>4, <2>5
<1>9. CASE GetBegin(c)
  <2>1. PICK m \in DOMAIN maps, op \in Reads : Start(c, [Idle EXCEPT !.pc = IF Delta(op) THEN "head" ELSE "fetch", !.map = m, !.op = op,
                            !.at = Now, !.cursor = current_cursor(m, {}),
                            !.ids = fetch_memory_ids_since(m, IF Delta(op) THEN cursor[c][m] ELSE 0)])
    BY <1>9 DEF GetBegin
  <2>2. PICK t : t = [Idle EXCEPT !.pc = IF Delta(op) THEN "head" ELSE "fetch", !.map = m, !.op = op,
                            !.at = Now, !.cursor = current_cursor(m, {}),
                            !.ids = fetch_memory_ids_since(m, IF Delta(op) THEN cursor[c][m] ELSE 0)]
    OBVIOUS
  <2>3. /\ t.pc = (IF Delta(op) THEN "head" ELSE "fetch") /\ t.map = m /\ t.op = op /\ t.party = "null"
        /\ t.cursor = current_cursor(m, {}) /\ t.ids = fetch_memory_ids_since(m, IF Delta(op) THEN cursor[c][m] ELSE 0)
    BY <2>2 DEF Idle
  <2>4. Start(c, t)
    BY <2>1, <2>2
  <2>5. Checked(c, t)
    BY <2>1, <2>3, <2>4 DEF Checked, Start, Writes, Reads, Delta, LiveMaps, WebOps
  <2> QED BY <1>0, <1>2, <2>4, <2>5
<1>10. CASE ReviewRead(c)
  <2>1. PICK m \in DOMAIN maps : Start(c, [Idle EXCEPT !.pc = "reset", !.map = m, !.op = "review", !.ids = ReviewNodes(m)])
    BY <1>10 DEF ReviewRead
  <2>2. PICK t : t = [Idle EXCEPT !.pc = "reset", !.map = m, !.op = "review", !.ids = ReviewNodes(m)]
    OBVIOUS
  <2>3. t.pc = "reset" /\ t.map = m /\ t.op = "review" /\ t.ids = ReviewNodes(m) /\ t.party = "null"
    BY <2>2 DEF Idle
  <2>4. Start(c, t)
    BY <2>1, <2>2
  <2>5. Checked(c, t)
    BY <2>1, <2>3, <2>4 DEF Checked, Start, Writes, Reads, LiveMaps, WebOps
  <2> QED BY <1>0, <1>2, <2>4, <2>5
<1> QED BY <1>0, <1>3, <1>4, <1>5, <1>6, <1>7, <1>8, <1>9, <1>10 DEF Check

----------------------------------------------------------------------------
(* Calls that overlap no other.                                              *)

\* While a call of Solo is under way, no other call is.
Alone ==
    \A c, d \in Clients :
       c # d /\ tx[c].pc # "idle" /\ tx[d].pc # "idle" => tx[c].op \notin Solo /\ tx[d].op \notin Solo

LEMMA InitAlone == Init => Alone
BY IdleType DEF Init, Alone

LEMMA AloneStep == ASSUME Inv, Alone, [Next]_vars PROVE Alone'
<1>1. CASE Next
  <2>0. PICK c \in Clients : Act(c)
    BY <1>1 DEF Next, Act
  <2>1. SUFFICES ASSUME NEW a \in Clients, NEW b \in Clients, a # b, tx'[a].pc # "idle", tx'[b].pc # "idle"
                 PROVE  tx'[a].op \notin Solo /\ tx'[b].op \notin Solo
    BY DEF Alone
  <2>2. ASSUME NEW d \in Clients, d # c, tx'[c].pc # "idle", tx'[d].pc # "idle"
        PROVE  tx'[c].op \notin Solo /\ tx'[d].op \notin Solo
    <3>1. tx'[d] = tx[d]
      BY <2>0, <2>2, CallFrame
    <3>2. CASE tx[c].pc # "idle" /\ tx'[c].op = tx[c].op
      BY <2>2, <3>1, <3>2 DEF Alone
    <3>3. CASE tx[d].pc = "idle" \/ {tx'[c].op, tx[d].op} \cap Solo = {}
      BY <2>2, <3>1, <3>3
    <3> QED BY <2>0, <2>2, <3>2, <3>3, CallFrame, IdleType
  <2>3. CASE a = c \/ b = c
    BY <2>1, <2>2, <2>3
  <2>4. CASE a # c /\ b # c
    BY <2>0, <2>1, <2>4, CallFrame DEF Alone
  <2> QED BY <2>3, <2>4
<1>2. CASE UNCHANGED vars
  BY <1>2 DEF vars, Alone
<1> QED BY <1>1, <1>2

----------------------------------------------------------------------------
(* The write counter.                                                        *)

\* A review that is about to reset the counter returned every node of the map.
ReviewWhole == \A c \in Clients : tx[c].pc = "reset" => Members(tx[c].map) \subseteq tx[c].ids

LEMMA ReviewWholeStep ==
    ASSUME "review" \in Solo, Inv, Alone, ReviewWhole, [Next]_vars
    PROVE  ReviewWhole'
<1>1. CASE Next
  <2>0. PICK c \in Clients : Act(c)
    BY <1>1 DEF Next, Act
  <2>1. SUFFICES ASSUME NEW d \in Clients, tx'[d].pc = "reset"
                 PROVE  Members(tx[d].map)' \subseteq tx'[d].ids
    BY DEF ReviewWhole
  <2>2. CASE d = c
    <3>1. Check(c)
      BY <2>0, <2>1, <2>2, CallFrame, IdleType
    <3>2. PICK t \in TxType : tx' = [tx EXCEPT ![c] = t] /\ Checked(c, t) /\ UNCHANGED member
      BY <3>1, CheckFrame
    <3>3. tx'[d] = t
      BY <2>2, <3>2 DEF Inv, Tables
    <3>4. t.ids = ReviewNodes(t.map)
      BY <2>1, <3>2, <3>3 DEF Checked
    <3>5. \A n \in DOMAIN member : member[n].status \in AnyStatus
      BY DEF Inv, TypeOK, Member, AnyStatus
    <3> QED BY <3>2, <3>3, <3>4, <3>5 DEF ReviewNodes, fetch_members, Members
  <2>3. CASE d # c
    <3>1. tx'[d] = tx[d] /\ tx[d].op = "review"
      BY <2>0, <2>1, <2>3, CallFrame DEF Inv, CallOK, PcFits
    <3>2. tx[c].pc = "idle"
      BY <2>1, <2>3, <3>1 DEF Alone
    <3>3. DOMAIN member' \subseteq DOMAIN member /\ \A n \in DOMAIN member : member'[n].map = member[n].map
      BY <2>0, <3>2, MemberFrame DEF SameRow, OpenCommit, WriteNodeCommit, AnswerCommit
    <3> QED BY <2>1, <3>1, <3>3 DEF ReviewWhole, Members
  <2> QED BY <2>2, <2>3
<1>2. CASE UNCHANGED vars
  BY <1>2 DEF vars, ReviewWhole, Members
<1> QED BY <1>1, <1>2

\* The nodes written to a map that no review has returned.
Unreviewed(m) == {n \in Members(m) \ (reviewed \cup {m}) : member[n].answers = None}

LEMMA UnreviewedFinite == ASSUME Inv, NEW m PROVE IsFiniteSet(Unreviewed(m)) /\ Cardinality(Unreviewed(m)) \in Nat
<1>1. IsFiniteSet(Ids)
  BY FS_Interval, MindmapAssumption DEF Ids
<1>2. Unreviewed(m) \in SUBSET Ids
  BY DEF Unreviewed, Members, Inv, TypeOK
<1>3. IsFiniteSet(Unreviewed(m))
  BY <1>1, <1>2, FS_Subset
<1> QED BY <1>3, FS_CardinalityType

LEMMA CountedStep ==
    ASSUME "review" \in Solo, Inv, Alone, ReviewWhole, UnreviewedCounted, [Next]_vars
    PROVE  UnreviewedCounted'
<1>0. TypeOK /\ Tables /\ Inv'
  BY StepInv DEF Inv
<1>1. CASE Next
  <2>0. PICK c \in Clients : Act(c)
    BY <1>1 DEF Next, Act
  <2>1. SUFFICES ASSUME NEW m \in DOMAIN maps'
                 PROVE  Cardinality(Unreviewed(m)') <= maps'[m].writes_since_review
    BY DEF UnreviewedCounted, Unreviewed
  <2>2. reviewed \subseteq reviewed' /\ (ReviewReset(c) \/ reviewed' = reviewed)
    BY <2>0, CheckFrame DEF Act, Step, Commit, ClosePromote, GraphBegin, GraphWrite, ReviewFlag, GetHead, GetMembers,
       GetTouch, ReviewReset, OpenCommit, WriteNodeCommit, AnswerCommit, ResolveCommit, LinkCommit, CloseCommit,
       Rollback, History
  <2>3. CASE m \notin DOMAIN maps
    <3>1. m = tx[c].node /\ maps'[m].writes_since_review = 0
      BY <2>0, <2>1, <2>3, MapFrame
    <3>2. Unreviewed(m)' = {}
      BY <1>0, <2>0, <2>3, <3>1, MemberFrame DEF Unreviewed, Members, SameRow, TypeOK
    <3> QED BY <3>1, <3>2, FS_EmptySet
  <2>4. CASE m \in DOMAIN maps /\ ReviewReset(c) /\ m = tx[c].map
    <3>1. maps'[m].writes_since_review = 0 /\ tx[c].pc = "reset" /\ reviewed' = reviewed \cup tx[c].ids /\ UNCHANGED member
      BY <1>0, <2>4 DEF ReviewReset, TypeOK, Map
    <3>2. Unreviewed(m)' = {}
      BY <2>4, <3>1 DEF ReviewWhole, Unreviewed, Members
    <3> QED BY <3>1, <3>2, FS_EmptySet
  <2>5. CASE m \in DOMAIN maps /\ WriteNodeCommit(c) /\ m = tx[c].map
    <3>1. maps'[m].writes_since_review = maps[m].writes_since_review + 1 /\ maps[m].writes_since_review \in Nat
      BY <1>0, <2>5 DEF WriteNodeCommit, TypeOK, Map
    <3>2. Unreviewed(m)' \subseteq Unreviewed(m) \cup {tx[c].node}
      BY <2>0, <2>2, MemberFrame DEF Unreviewed, Members, SameRow
    <3>3. PICK S, T, x : S = Unreviewed(m) /\ T = Unreviewed(m)' /\ x = tx[c].node
      OBVIOUS
    <3>4. IsFiniteSet(S) /\ Cardinality(S) \in Nat /\ Cardinality(S) <= maps[m].writes_since_review
      BY <2>5, <3>3, UnreviewedFinite DEF UnreviewedCounted, Unreviewed
    <3>5. IsFiniteSet(S \cup {x}) /\ Cardinality(S \cup {x}) <= Cardinality(S) + 1 /\ Cardinality(S \cup {x}) \in Nat
      BY SMTT(40), <3>4, FS_AddElement
    <3>6. T \in SUBSET (S \cup {x})
      BY <3>2, <3>3
    <3>7. Cardinality(T) <= Cardinality(S \cup {x}) /\ IsFiniteSet(T)
      BY <3>5, <3>6, FS_Subset
    <3>8. Cardinality(T) \in Nat
      BY <3>7, FS_CardinalityType
    <3> QED BY <3>1, <3>3, <3>4, <3>5, <3>7, <3>8
  <2>6. CASE m \in DOMAIN maps /\ ~(ReviewReset(c) /\ m = tx[c].map) /\ ~(WriteNodeCommit(c) /\ m = tx[c].map)
    <3>1. maps'[m].writes_since_review = maps[m].writes_since_review /\ maps[m].writes_since_review \in Nat
      <4>0. maps[m] \in Map /\ maps[m].writes_since_review \in Nat
        BY <1>0, <2>6 DEF TypeOK, Map
      <4>1. CASE UNCHANGED maps
        BY <4>0, <4>1
      <4>2. CASE OpenCommit(c)
        BY <1>0, <2>6, <4>0, <4>2 DEF OpenCommit, With, Inv, CallOK, DrawnFits, Adds, Tables
      <4>3. CASE WriteNodeCommit(c) \/ AnswerCommit(c) \/ CloseCommit(c)
        BY <2>6, <4>0, <4>3 DEF WriteNodeCommit, AnswerCommit, CloseCommit, Map
      <4>4. CASE GetTouch(c) \/ ReviewReset(c)
        BY <2>6, <4>0, <4>4 DEF GetTouch, ReviewReset, Map
      <4> QED BY <2>0, <4>1, <4>2, <4>3, <4>4, CheckFrame DEF Act, Step, Commit, ClosePromote, GraphBegin, GraphWrite,
              ReviewFlag, GetHead, GetMembers, ResolveCommit, LinkCommit, Rollback
    <3>2. Unreviewed(m)' \subseteq Unreviewed(m)
      <4>1. ASSUME NEW n \in Unreviewed(m)' PROVE n \in DOMAIN member
        <5>1. n \in DOMAIN member' /\ member'[n].map = m /\ member'[n].answers = None /\ n # m
          BY <4>1 DEF Unreviewed, Members
        <5>2. SUFFICES ASSUME n \notin DOMAIN member PROVE FALSE
          OBVIOUS
        <5>3. /\ OpenCommit(c) \/ AnswerCommit(c) \/ WriteNodeCommit(c)
              /\ n = tx[c].node /\ m = tx[c].map /\ tx[c].question = None
          BY <2>0, <5>1, <5>2, MemberFrame
        <5>4. ~AnswerCommit(c)
          <6>1. AnswerCommit(c) => tx[c].question \in DOMAIN member
            BY AnswerRows
          <6>2. None \notin DOMAIN member
            BY <1>0, MindmapAssumption DEF TypeOK, Ids, None
          <6> QED BY <5>3, <6>1, <6>2
        <5>5. OpenCommit(c)
          BY <2>6, <5>3, <5>4
        <5> QED BY <5>1, <5>3, <5>5 DEF OpenCommit, Inv, CallOK, DrawnFits, Adds
      <4> QED BY <2>0, <2>2, <4>1, MemberFrame DEF Unreviewed, Members, SameRow
    <3>3. PICK S, T : S = Unreviewed(m) /\ T = Unreviewed(m)'
      OBVIOUS
    <3>4. IsFiniteSet(S) /\ Cardinality(S) \in Nat /\ Cardinality(S) <= maps[m].writes_since_review
      BY <2>6, <3>3, UnreviewedFinite DEF UnreviewedCounted, Unreviewed
    <3>5. T \in SUBSET S
      BY <3>2, <3>3
    <3>6. Cardinality(T) <= Cardinality(S) /\ IsFiniteSet(T)
      BY <3>4, <3>5, FS_Subset
    <3>7. Cardinality(T) \in Nat
      BY <3>6, FS_CardinalityType
    <3> QED BY <3>1, <3>3, <3>4, <3>6, <3>7
  <2> QED BY <2>3, <2>4, <2>5, <2>6
<1>2. CASE UNCHANGED vars
  BY <1>2 DEF vars, UnreviewedCounted, Members
<1> QED BY <1>1, <1>2

\* When no call overlaps mindmap_review, the counter that calls for a review counts
\* every node written that no review has returned.
THEOREM WritesAreCounted ==
    ASSUME "review" \in Solo
    PROVE  Spec => []UnreviewedCounted
<1>1. Init => ReviewWhole /\ UnreviewedCounted
  BY IdleType DEF Init, ReviewWhole, UnreviewedCounted
<1>2. Inv /\ Alone /\ ReviewWhole /\ UnreviewedCounted /\ [Next]_vars
      => Inv' /\ Alone' /\ ReviewWhole' /\ UnreviewedCounted'
  BY StepInv, AloneStep, ReviewWholeStep, CountedStep
<1> QED BY <1>1, <1>2, InitInv, InitAlone, PTL DEF Spec

----------------------------------------------------------------------------
(* Events and cursors.                                                       *)

\* Where the states of a call come from, and which steps change what.
LEMMA PcFrame ==
    ASSUME Inv, NEW c \in Clients, Act(c)
    PROVE  /\ tx[c].pc = "idle" => Check(c)
           /\ tx'[c].pc = "written" => GraphWrite(c)
           /\ tx'[c].pc = "begun" => Check(c) \/ GraphBegin(c)
           /\ tx'[c].pc = "promoted" => ClosePromote(c)
           /\ tx'[c].pc = "head" => Check(c)
           /\ tx'[c].pc = "fetch" => Check(c) \/ GetHead(c)
           /\ tx'[c].pc = "touch" => GetMembers(c)
<1>0. tx \in [Clients -> TxType] /\ tx[c] \in TxType
  BY DEF Inv, Tables
<1>1. CASE Check(c)
  <2>1. PICK t \in TxType : tx' = [tx EXCEPT ![c] = t] /\ Checked(c, t)
    BY <1>1, CheckFrame
  <2> QED BY <1>0, <1>1, <2>1 DEF Checked
<1>2. CASE ClosePromote(c) \/ GraphBegin(c)
  BY <1>0, <1>2 DEF ClosePromote, GraphBegin, TxType
<1>3. CASE GraphWrite(c)
  BY <1>0, <1>3 DEF GraphWrite, TxType
<1>4. CASE GetHead(c) \/ GetMembers(c)
  BY <1>0, <1>4 DEF GetHead, GetMembers, TxType
<1>5. CASE WriteNodeCommit(c)
  BY <1>0, <1>5, IdleType DEF WriteNodeCommit, TxType
<1>6. CASE ReviewFlag(c) \/ GetTouch(c) \/ ReviewReset(c) \/ OpenCommit(c) \/ AnswerCommit(c) \/ ResolveCommit(c)
           \/ LinkCommit(c) \/ CloseCommit(c) \/ Rollback(c)
  <2>1. tx[c].pc # "idle" /\ tx' = [tx EXCEPT ![c] = Idle]
    BY <1>6 DEF ReviewFlag, GetTouch, ReviewReset, OpenCommit, AnswerCommit, ResolveCommit, LinkCommit, CloseCommit, Rollback
  <2> QED BY <1>0, <2>1, IdleType
<1> QED BY <1>1, <1>2, <1>3, <1>4, <1>5, <1>6 DEF Act, Step, Commit

LEMMA CursorFrame ==
    ASSUME Inv, NEW c \in Clients, Act(c), "reply_cursor" \notin Ops
    PROVE  (UNCHANGED <<cursor, told>>) \/ GetTouch(c)
BY CheckFrame DEF Act, Step, Commit, ClosePromote, GraphBegin, GraphWrite, ReviewFlag, GetHead, GetMembers,
   ReviewReset, OpenCommit, WriteNodeCommit, AnswerCommit, ResolveCommit, LinkCommit, CloseCommit, Rollback,
   History, KeepCursor

\* A commit makes its event visible, a review an event of its own.
Noted(c) == [id |-> nextEvent, map |-> tx[c].map, node |-> None]

LEMMA EventFrame ==
    ASSUME Inv, NEW c \in Clients, Act(c)
    PROVE  /\ nextEvent' \in Nat /\ nextEvent <= nextEvent'
           /\ \/ events' = events
              \/ tx[c].pc = "written" /\ tx'[c].pc # "written" /\ events' = events \cup {Logged(c)}
              \/ (ReviewFlag(c) \/ ReviewReset(c)) /\ events' = events \cup {Noted(c)} /\ nextEvent' = nextEvent + 1
<1>0. tx \in [Clients -> TxType] /\ tx[c] \in TxType /\ nextEvent \in Nat
  BY DEF Inv, Tables
<1>1. CASE Check(c)
  BY <1>0, <1>1, CheckFrame
<1>2. CASE ReviewFlag(c) \/ ReviewReset(c)
  BY <1>0, <1>2 DEF ReviewFlag, ReviewReset, Noted
<1>3. CASE ClosePromote(c) \/ GraphBegin(c) \/ GraphWrite(c) \/ GetHead(c) \/ GetMembers(c) \/ GetTouch(c) \/ Rollback(c)
  BY <1>0, <1>3 DEF ClosePromote, GraphBegin, GraphWrite, GetHead, GetMembers, GetTouch, Rollback, Sequences
<1>4. CASE Commit(c)
  <2>1. tx[c].pc = "written" /\ events' = events \cup {Logged(c)} /\ nextEvent' = nextEvent
    BY <1>4 DEF Commit, OpenCommit, WriteNodeCommit, AnswerCommit, ResolveCommit, LinkCommit, CloseCommit, Sequences
  <2>2. ~GraphWrite(c)
    BY <2>1 DEF GraphWrite
  <2> QED BY <1>0, <2>1, <2>2, PcFrame
<1> QED BY <1>1, <1>2, <1>3, <1>4 DEF Act, Step

\* Events of a map become visible in the order of their ids: the transactions that
\* have logged one hold the row lock of the map or overlap no other call.
InOrder ==
    \A c \in Clients : tx[c].pc = "written" =>
       /\ \A e \in events : e.map = tx[c].map => e.id < tx[c].event
       /\ \A d \in Clients \ {c} : tx[d].pc = "written" => tx[d].map # tx[c].map

Logs == {"answer", "resolve", "link"}

LEMMA WriteRival ==
    ASSUME Logs \subseteq Solo, Inv, Alone, NEW c \in Clients, GraphWrite(c),
           NEW d \in Clients, d # c, tx[d].pc = "written"
    PROVE  tx'[c].map # tx[d].map
<1>0. tx[c] \in TxType /\ tx \in [Clients -> TxType] /\ tx[c].pc = "begun" /\ ~Blocked(c)
      /\ Tables /\ TypeOK /\ nextId \in Nat
  BY DEF Inv, Tables, GraphWrite
<1>1. tx'[c].map = IF tx[c].op = "open" THEN nextId ELSE tx[c].map
  BY <1>0 DEF GraphWrite, Adds, TxType
<1>2. /\ PcFits(tx[c]) /\ ArgsFit(tx[c]) /\ PcFits(tx[d]) /\ ArgsFit(tx[d]) /\ DrawnFits(tx[d])
  BY <1>0 DEF Inv, CallOK
<1>3. tx[c].op \in Writes \cup {"open", "close"} /\ tx[d].op \in Writes \cup {"open", "close"}
  BY <1>0, <1>2 DEF PcFits, Alone, Logs
<1>4. /\ tx[c].op # "open" => tx[c].map \in DOMAIN maps
      /\ tx[d].op # "open" => tx[d].map \in DOMAIN maps
      /\ tx[d].op = "open" => tx[d].map \notin DOMAIN maps /\ tx[d].map < nextId /\ tx[d].map \in Ids
  BY <1>0, <1>2 DEF ArgsFit, DrawnFits, Adds, Tables
<1>5. nextId \notin DOMAIN maps
  BY <1>0 DEF Tables
<1>6. CASE tx[c].op = "open" \/ tx[d].op = "open"
  BY <1>0, <1>1, <1>4, <1>5, <1>6 DEF Ids
<1>7. CASE tx[c].op # "open" /\ tx[d].op # "open"
  BY <1>0, <1>1, <1>3, <1>7 DEF Blocked, Updates, Writes
<1> QED BY <1>6, <1>7

LEMMA ResetRival ==
    ASSUME Logs \cup {"flag"} \subseteq Solo, Inv, Alone, NEW c \in Clients, ReviewFlag(c) \/ ReviewReset(c),
           NEW d \in Clients, tx[d].pc = "written"
    PROVE  tx[c].map # tx[d].map
<1>1. CASE ReviewFlag(c)
  BY <1>1 DEF ReviewFlag
<1>2. CASE ReviewReset(c)
  <2>0. tx[c].pc = "reset" /\ ~Blocked(c) /\ c # d /\ Tables
    BY <1>2 DEF ReviewReset, Inv
  <2>1. PcFits(tx[c]) /\ ArgsFit(tx[c]) /\ PcFits(tx[d]) /\ ArgsFit(tx[d]) /\ DrawnFits(tx[d])
    BY <2>0 DEF Inv, CallOK
  <2>2. tx[d].op \in Writes \cup {"open", "close"}
    BY <2>0, <2>1 DEF PcFits, Alone, Logs
  <2>3. tx[c].map \in DOMAIN maps /\ (tx[d].op = "open" => tx[d].map \notin DOMAIN maps)
    BY <2>0, <2>1 DEF PcFits, ArgsFit, DrawnFits, Adds, Tables
  <2>4. CASE tx[d].op = "open"
    BY <2>3, <2>4
  <2>5. CASE tx[d].op # "open"
    BY <2>0, <2>2, <2>5 DEF Blocked, Updates, Writes
  <2> QED BY <2>4, <2>5
<1> QED BY <1>1, <1>2

\* An event that a step makes visible: it is of the call's map, and no other
\* transaction has logged one of that map.
LEMMA NewEvent ==
    ASSUME Logs \cup {"flag"} \subseteq Solo, Inv, Alone, InOrder, NEW c \in Clients, Act(c),
           NEW e \in events', e \notin events
    PROVE  /\ e.map = tx[c].map
           /\ \/ tx[c].pc = "written" /\ e.id = tx[c].event /\ e.node = tx[c].node /\ tx'[c].pc # "written"
              \/ tx[c].pc # "written" /\ e.node = None
           /\ \A d \in Clients : d # c /\ tx[d].pc = "written" => tx[d].map # e.map
<1>1. CASE tx[c].pc = "written" /\ tx'[c].pc # "written" /\ events' = events \cup {Logged(c)}
  <2>1. e.id = tx[c].event /\ e.map = tx[c].map /\ e.node = tx[c].node
    BY <1>1 DEF Logged
  <2> QED BY <1>1, <2>1 DEF InOrder
<1>2. CASE (ReviewFlag(c) \/ ReviewReset(c)) /\ events' = events \cup {Noted(c)}
  <2>1. e.map = tx[c].map /\ e.node = None /\ tx[c].pc # "written"
    BY <1>2 DEF Noted, ReviewFlag, ReviewReset
  <2> QED BY <1>2, <2>1, ResetRival
<1> QED BY <1>1, <1>2, EventFrame

LEMMA InOrderStep ==
    ASSUME Logs \cup {"flag"} \subseteq Solo, Inv, Alone, InOrder, [Next]_vars
    PROVE  InOrder'
<1>1. CASE Next
  <2>0. PICK c \in Clients : Act(c)
    BY <1>1 DEF Next, Act
  <2>1. SUFFICES ASSUME NEW d \in Clients, tx'[d].pc = "written"
                 PROVE  /\ \A e \in events' : e.map = tx'[d].map => e.id < tx'[d].event
                        /\ \A k \in Clients \ {d} : tx'[k].pc = "written" => tx'[k].map # tx'[d].map
    BY DEF InOrder
  <2>2. \A k \in Clients : k # c => tx'[k] = tx[k]
    BY <2>0, CallFrame
  <2>3. CASE d = c
    <3>1. GraphWrite(c)
      BY <2>0, <2>1, <2>3, PcFrame
    <3>2. tx'[c].event = nextEvent /\ UNCHANGED events
      BY <3>1 DEF GraphWrite, Inv, Tables, TxType
    <3>3. \A e \in events' : e.id < tx'[d].event
      BY <2>3, <3>2 DEF Inv, TypeOK
    <3> QED BY <2>2, <2>3, <3>1, <3>3, WriteRival
  <2>4. CASE d # c
    <3>1. tx'[d] = tx[d] /\ tx[d].pc = "written"
      BY <2>1, <2>2, <2>4
    <3>2. ASSUME NEW e \in events', e.map = tx'[d].map PROVE e.id < tx'[d].event
      <4>1. e \in events
        BY <2>0, <2>4, <3>1, <3>2, NewEvent
      <4> QED BY <3>1, <3>2, <4>1 DEF InOrder
    <3>3. ASSUME NEW k \in Clients \ {d}, tx'[k].pc = "written" PROVE tx'[k].map # tx'[d].map
      <4>1. CASE k = c
        BY <2>0, <2>4, <3>1, <3>3, <4>1, PcFrame, WriteRival
      <4>2. CASE k # c
        BY <2>2, <3>1, <3>3, <4>2 DEF InOrder
      <4> QED BY <4>1, <4>2
    <3> QED BY <3>2, <3>3
  <2> QED BY <2>3, <2>4
<1>2. CASE UNCHANGED vars
  BY <1>2 DEF vars, InOrder
<1> QED BY <1>1, <1>2

\* No cursor, held or being read, has passed an event that is not visible yet.
Reading(c) == tx[c].pc \in {"head", "fetch", "touch"}

Behind ==
    /\ \A c \in Clients, m \in Ids : cursor[c][m] < nextEvent
    /\ \A c \in Clients : Reading(c) => tx[c].cursor < nextEvent
    /\ \A d \in Clients : tx[d].pc = "written" =>
          \A c \in Clients :
             /\ cursor[c][tx[d].map] < tx[d].event
             /\ Reading(c) /\ tx[c].map = tx[d].map => tx[c].cursor < tx[d].event

\* The cursor of a read is that of a visible event.
LEMMA CursorOfEvent ==
    ASSUME TypeOK, Tables, NEW m
    PROVE  current_cursor(m, {}) = 0 \/ \E e \in events : e.map = m /\ e.id = current_cursor(m, {})
<1> DEFINE ids == {0} \cup {} \cup {e.id : e \in {f \in events : f.map = m}}
<1>1. \A e \in events : e.id \in Nat /\ e.id < nextEvent
  BY DEF TypeOK, Event
<1>2. nextEvent \in Nat /\ nextEvent # 0
  BY DEF Tables
<1>3. ids \in SUBSET Nat /\ ids # {} /\ \A i \in ids : i <= nextEvent
  BY <1>1, <1>2
<1>4. current_cursor(m, {}) = CHOOSE i \in ids : \A j \in ids : j <= i
  BY DEF current_cursor
<1>5. \A i \in ids : i = 0 \/ \E e \in events : e.map = m /\ e.id = i
  OBVIOUS
<1> HIDE DEF ids
<1>6. \E i \in ids : \A j \in ids : j <= i
  BY <1>2, <1>3, Largest
<1> QED BY <1>4, <1>5, <1>6

\* How a read gets its cursor.
LEMMA ReadCursor ==
    ASSUME Inv, NEW c \in Clients, Act(c), Reading(c)'
    PROVE  \/ tx'[c].cursor = current_cursor(tx'[c].map, {}) /\ UNCHANGED events
           \/ Reading(c) /\ tx'[c].map = tx[c].map /\ tx'[c].cursor = tx[c].cursor
<1>0. tx \in [Clients -> TxType] /\ tx[c] \in TxType
  BY DEF Inv, Tables
<1>1. CASE Check(c)
  <2>1. PICK t \in TxType : tx' = [tx EXCEPT ![c] = t] /\ Checked(c, t) /\ UNCHANGED events
    BY <1>1, CheckFrame
  <2>2. tx'[c] = t
    BY <1>0, <2>1
  <2>3. t.op \in Reads
    <3>1. t.pc \in {"head", "fetch"}
      BY <2>1, <2>2 DEF Checked, Reading
    <3> QED BY <2>1, <3>1 DEF Checked
  <2> QED BY <2>1, <2>2, <2>3 DEF Checked
<1>2. CASE GetHead(c)
  BY <1>0, <1>2 DEF GetHead, TxType
<1>3. CASE GetMembers(c)
  BY <1>0, <1>3 DEF GetMembers, TxType, Reading
<1> QED BY <1>1, <1>2, <1>3, PcFrame DEF Reading

LEMMA BehindStep ==
    ASSUME Logs \cup {"flag"} \subseteq Solo, "reply_cursor" \notin Ops, Inv, Alone, InOrder, Behind, [Next]_vars
    PROVE  Behind'
<1>0. /\ TypeOK /\ Tables /\ tx \in [Clients -> TxType] /\ nextEvent \in Nat /\ nextEvent # 0
      /\ cursor \in [Clients -> [Ids -> Nat]]
      /\ \A d \in Clients : tx[d].pc = "written" => tx[d].event \in Nat /\ tx[d].event > 0
  BY DEF Inv, Tables, TypeOK, CallOK, DrawnFits
<1>1. CASE Next
  <2>0. PICK c \in Clients : Act(c)
    BY <1>1 DEF Next, Act
  <2>1. /\ nextEvent' \in Nat /\ nextEvent <= nextEvent' /\ \A k \in Clients : k # c => tx'[k] = tx[k]
    BY <2>0, CallFrame, EventFrame
  <2>2. ASSUME NEW a \in Clients, NEW m \in Ids
        PROVE  /\ cursor'[a][m] \in Nat
               /\ cursor'[a][m] = cursor[a][m] \/ (Reading(c) /\ m = tx[c].map /\ cursor'[a][m] = tx[c].cursor)
    <3>1. CASE UNCHANGED cursor
      BY <1>0, <3>1
    <3>2. CASE GetTouch(c)
      BY <1>0, <3>2 DEF GetTouch, Reading, TxType
    <3> QED BY <2>0, <3>1, <3>2, CursorFrame
  <2>3. \A a \in Clients, m \in Ids : cursor'[a][m] < nextEvent
    BY <1>0, <2>2 DEF Behind
  <2>4. ASSUME NEW a \in Clients, Reading(a)' PROVE tx'[a].cursor \in Nat /\ tx'[a].cursor < nextEvent
    <3>0. tx'[a].cursor \in Nat
      BY StepInv DEF Inv, Tables, TxType
    <3>1. CASE a = c
      BY <1>0, <2>0, <2>4, <3>0, <3>1, ReadCursor, CursorNat DEF Behind
    <3>2. CASE a # c
      BY <2>1, <2>4, <3>0, <3>2 DEF Behind, Reading
    <3> QED BY <3>1, <3>2
  <2>5. ASSUME NEW d \in Clients, tx'[d].pc = "written", NEW a \in Clients
        PROVE  /\ cursor'[a][tx'[d].map] < tx'[d].event
               /\ Reading(a)' /\ tx'[a].map = tx'[d].map => tx'[a].cursor < tx'[d].event
    <3>0. tx'[d].map \in Ids
      <4>1. Inv'
        BY StepInv
      <4> QED BY <2>5, <4>1 DEF Inv, CallOK, ArgsFit, DrawnFits, Adds, TypeOK
    <3>1. CASE d = c
      <4>1. tx'[c].event = nextEvent
        <5>1. GraphWrite(c) /\ tx[c] \in TxType
          BY <1>0, <2>0, <2>5, <3>1, PcFrame
        <5> QED BY <1>0, <5>1 DEF GraphWrite, TxType
      <4> QED BY <2>3, <2>4, <3>0, <3>1, <4>1
    <3>2. CASE d # c
      <4>1. tx'[d] = tx[d] /\ tx[d].pc = "written" /\ tx[d].event \in Nat /\ tx[d].event > 0 /\ tx[d].map \in Ids
        BY <1>0, <2>1, <2>5, <3>0, <3>2
      <4>2. cursor'[a][tx[d].map] < tx[d].event
        BY <2>2, <4>1 DEF Behind
      <4>3. ASSUME Reading(a)', tx'[a].map = tx[d].map PROVE tx'[a].cursor < tx[d].event
        <5>1. CASE a # c
          BY <2>1, <4>1, <4>3, <5>1 DEF Behind, Reading
        <5>2. CASE a = c /\ Reading(c) /\ tx'[c].map = tx[c].map /\ tx'[c].cursor = tx[c].cursor
          BY <4>1, <4>3, <5>2 DEF Behind
        <5>3. CASE a = c /\ tx'[c].cursor = current_cursor(tx'[c].map, {})
          <6>1. PICK m : m = tx[d].map
            OBVIOUS
          <6>2. tx'[a].cursor = current_cursor(m, {})
            BY <4>3, <5>3, <6>1
          <6> QED BY <1>0, <4>1, <6>1, <6>2, CursorOfEvent DEF InOrder
        <5> QED BY <2>0, <4>3, <5>1, <5>2, <5>3, ReadCursor
      <4> QED BY <4>1, <4>2, <4>3
    <3> QED BY <3>1, <3>2
  <2>6. \A a \in Clients, m \in Ids : cursor'[a][m] < nextEvent'
    BY <1>0, <2>1, <2>2, <2>3
  <2>7. \A a \in Clients : Reading(a)' => tx'[a].cursor < nextEvent'
    BY <1>0, <2>1, <2>4
  <2> QED BY <2>5, <2>6, <2>7 DEF Behind
<1>2. CASE UNCHANGED vars
  BY <1>2 DEF vars, Behind, Reading
<1> QED BY <1>1, <1>2

\* What a read has collected and will show covers the cursor it will hand out.
Collected ==
    \A c \in Clients : \A e \in events :
       e.map = tx[c].map /\ e.node \in Members(e.map) =>
          /\ tx[c].pc \in {"head", "fetch"} /\ tx[c].op = "get_since" =>
                e.id <= cursor[c][e.map] \/ e.node \in tx[c].ids
          /\ tx[c].pc = "touch" /\ e.id <= tx[c].cursor => e.id \in told[c] \cup tx[c].shown

\* A visible event is of a node that existed.
LEMMA OldNode ==
    ASSUME Inv, NEW c \in Clients, Act(c), NEW e \in events, e.node \in Members(e.map)'
    PROVE  e.node \in Members(e.map)
<1>1. Inv' /\ None \notin Ids
  BY StepInv, MindmapAssumption DEF Ids, None, Next, Act
<1>2. e.node \in DOMAIN member' /\ e.node # None /\ member'[e.node].map = e.map
  BY <1>1 DEF Members, Inv, TypeOK
<1>3. e.node \in DOMAIN member
  BY <1>2 DEF Inv, Tables
<1> QED BY <1>2, <1>3, MemberFrame DEF Members, SameRow

LEMMA CoversStep ==
    ASSUME Logs \cup {"flag", "get_since"} \subseteq Solo, Ops \cap {"reply_cursor", "get_open_since"} = {},
           Inv, Alone, InOrder, Behind, Collected, CursorCovers, [Next]_vars
    PROVE  Collected' /\ CursorCovers'
<1>0. /\ TypeOK /\ Tables /\ tx \in [Clients -> TxType] /\ cursor \in [Clients -> [Ids -> Nat]]
      /\ told \in [Clients -> SUBSET Nat] /\ \A e \in events : e.id \in Nat /\ e.map \in Ids
  BY DEF Inv, Tables, TypeOK, Event
<1>1. CASE Next
  <2>0. PICK c \in Clients : Act(c)
    BY <1>1 DEF Next, Act
  <2>1. \A k \in Clients : k # c => tx'[k] = tx[k]
    BY <2>0, CallFrame
  <2>2. \A k \in Clients : told[k] \subseteq told'[k]
    <3>1. CASE GetTouch(c)
      BY <1>0, <3>1 DEF GetTouch
    <3> QED BY <2>0, <3>1, CursorFrame
  <2>3. Inv' /\ None \notin Ids
    BY StepInv, MindmapAssumption DEF Ids, None
  \* An event that becomes visible is ahead of every cursor.
  <2>4. ASSUME NEW e \in events', e \notin events, e.node \in Members(e.map)'
        PROVE  /\ tx[c].pc = "written" /\ tx'[c].pc # "written" /\ UNCHANGED <<cursor, told>>
               /\ \A a \in Clients : ~(e.id <= cursor[a][e.map])
               /\ \A a \in Clients : Reading(a) /\ tx[a].map = e.map => ~(e.id <= tx[a].cursor)
    <3>1. e.node # None
      BY <2>3, <2>4 DEF Members, Inv, TypeOK
    <3>2. tx[c].pc = "written" /\ tx'[c].pc # "written" /\ e.id = tx[c].event /\ e.map = tx[c].map
      BY <2>0, <2>4, <3>1, NewEvent
    <3>3. UNCHANGED <<cursor, told>>
      BY <2>0, <3>2, CursorFrame DEF GetTouch
    <3>4. tx[c].event \in Nat /\ tx[c].map \in Ids /\ \A a \in Clients : tx[a].cursor \in Nat
      BY <1>0, <2>3, <2>4, <3>2 DEF TxType, Inv, TypeOK, Event
    <3>5. \A a \in Clients : cursor[a][e.map] \in Nat
      BY <1>0, <3>2, <3>4
    <3> QED BY <3>2, <3>3, <3>4, <3>5 DEF Behind
  <2>5. Collected'
    <3>1. SUFFICES ASSUME NEW a \in Clients, NEW e \in events', e.map = tx'[a].map, e.node \in Members(e.map)'
                   PROVE  /\ tx'[a].pc \in {"head", "fetch"} /\ tx'[a].op = "get_since" =>
                                e.id <= cursor'[a][e.map] \/ e.node \in tx'[a].ids
                          /\ tx'[a].pc = "touch" /\ e.id <= tx'[a].cursor => e.id \in told'[a] \cup tx'[a].shown
      BY DEF Collected
    <3>2. ASSUME tx'[a].pc \in {"head", "fetch"}, tx'[a].op = "get_since"
          PROVE  e.id <= cursor'[a][e.map] \/ e.node \in tx'[a].ids
      <4>1. CASE a = c /\ GetHead(c)
        <5>1. UNCHANGED <<events, cursor>> /\ tx'[a].map = tx[a].map /\ tx'[a].op = tx[a].op /\ tx'[a].ids = tx[a].ids
              /\ tx[a].pc = "head"
          BY <1>0, <4>1 DEF GetHead, TxType
        <5> QED BY <2>0, <3>1, <3>2, <5>1, OldNode DEF Collected
      <4>2. CASE a = c /\ Check(c)
        <5>1. PICK t \in TxType : tx' = [tx EXCEPT ![c] = t] /\ Checked(c, t) /\ UNCHANGED <<events, cursor>>
          BY <4>2, CheckFrame
        <5>2. tx'[a] = t
          BY <1>0, <4>2, <5>1
        <5>3. t.ids = fetch_memory_ids_since(t.map, cursor[a][t.map])
          BY <3>2, <4>2, <5>1, <5>2 DEF Checked, Reads
        <5>4. e \in events /\ e.node # None /\ cursor[a][e.map] \in Nat /\ e.id \in Nat
          BY <1>0, <2>3, <3>1, <5>1 DEF Members, Inv, TypeOK
        <5>5. e.id > cursor[a][e.map] => e.node \in t.ids
          BY <3>1, <5>2, <5>3, <5>4 DEF fetch_memory_ids_since
        <5> QED BY <5>1, <5>2, <5>4, <5>5
      <4>3. CASE a # c
        <5>1. tx'[a] = tx[a] /\ tx[c].pc = "idle"
          BY <2>1, <3>2, <4>3 DEF Alone
        <5>2. UNCHANGED <<events, cursor>>
          BY <2>0, <5>1, PcFrame, CheckFrame
        <5> QED BY <2>0, <3>1, <3>2, <5>1, <5>2, OldNode DEF Collected
      <4> QED BY <2>0, <3>2, <4>1, <4>2, <4>3, PcFrame
    <3>3. ASSUME tx'[a].pc = "touch", e.id <= tx'[a].cursor PROVE e.id \in told'[a] \cup tx'[a].shown
      <4>1. CASE a = c
        <5>1. GetMembers(c)
          BY <2>0, <3>3, <4>1, PcFrame
        <5>2. PICK t \in TxType : t = tx[c]
          BY <1>0
        <5>3. /\ t.pc = "fetch" /\ UNCHANGED <<events, member, told, cursor>> /\ tx'[c].map = t.map
              /\ tx'[c].shown = {f.id : f \in {g \in events : g.map = t.map /\ g.node \in Returned(t)}}
          BY <1>0, <5>1, <5>2 DEF GetMembers, TxType, History
        <5>4. e \in events /\ e.node \in Members(t.map) /\ e.map = t.map
          BY <3>1, <4>1, <5>3 DEF Members
        <5>5. t.op \in Ops /\ t.op \in Reads
          BY <5>2, <5>3 DEF Inv, CallOK, PcFits, ArgsFit
        <5>6. member[e.node].status \in AnyStatus
          BY <1>0, <5>4 DEF Members, TypeOK, Member, AnyStatus
        <5>7. e.node \in Returned(t) \/ (t.op = "get_since" /\ e.node \notin t.ids)
          BY <5>4, <5>5, <5>6 DEF Returned, Delta, fetch_members
        <5>8. CASE e.node \in Returned(t)
          BY <4>1, <5>3, <5>4, <5>8
        <5>9. CASE t.op = "get_since" /\ e.node \notin t.ids
          <6>1. e.id <= cursor[c][e.map]
            BY <5>2, <5>3, <5>4, <5>9 DEF Collected
          <6> QED BY <4>1, <5>3, <5>4, <6>1 DEF CursorCovers
        <5> QED BY <5>7, <5>8, <5>9
      <4>2. CASE a # c
        <5>1. tx'[a] = tx[a]
          BY <2>1, <4>2
        <5>2. e \in events
          BY <2>4, <3>1, <3>3, <5>1 DEF Reading
        <5> QED BY <2>0, <2>2, <3>1, <3>3, <5>1, <5>2, OldNode DEF Collected
      <4> QED BY <4>1, <4>2
    <3> QED BY <3>2, <3>3
  <2>6. CursorCovers'
    <3>1. SUFFICES ASSUME NEW a \in Clients, NEW e \in events', e.node \in Members(e.map)', e.id <= cursor'[a][e.map]
                   PROVE  e.id \in told'[a]
      BY DEF CursorCovers
    <3>2. e \in events
      BY <2>4, <3>1
    <3>3. e.node \in Members(e.map)
      BY <2>0, <3>1, <3>2, OldNode
    <3>4. CASE cursor'[a][e.map] = cursor[a][e.map]
      BY <2>2, <3>1, <3>2, <3>3, <3>4 DEF CursorCovers
    <3>5. CASE GetTouch(c) /\ a = c /\ e.map = tx[c].map
      <4>1. cursor'[a][e.map] = tx[c].cursor /\ told'[c] = told[c] \cup tx[c].shown /\ tx[c].pc = "touch"
        BY <1>0, <3>2, <3>5 DEF GetTouch
      <4> QED BY <3>1, <3>2, <3>3, <3>5, <4>1 DEF Collected
    <3>6. CASE GetTouch(c) /\ ~(a = c /\ e.map = tx[c].map)
      <4>1. cursor'[a][e.map] = cursor[a][e.map]
        BY <1>0, <3>2, <3>6 DEF GetTouch
      <4> QED BY <3>4, <4>1
    <3> QED BY <2>0, <3>4, <3>5, <3>6, CursorFrame
  <2> QED BY <2>5, <2>6
<1>2. CASE UNCHANGED vars
  BY <1>2 DEF vars, Collected, CursorCovers, Members
<1> QED BY <1>1, <1>2

\* "memory_map_events.id ... is already a monotonic cursor": where answers,
\* resolutions, links and delta reads overlap no other call and review flags no
\* logged event, and the cursor of a reply or of a read of the open branches is
\* not gone on with, a client has been shown every change up to its cursor.
THEOREM CursorsCover ==
    ASSUME {"answer", "resolve", "link", "get_since", "flag"} \subseteq Solo,
           Ops \cap {"reply_cursor", "get_open_since"} = {}
    PROVE  Spec => []CursorCovers
<1>0. Logs \cup {"flag"} \subseteq Solo /\ Logs \cup {"flag", "get_since"} \subseteq Solo /\ "reply_cursor" \notin Ops
  BY DEF Logs
<1>1. Init => InOrder /\ Behind /\ Collected /\ CursorCovers
  BY IdleType DEF Init, InOrder, Behind, Reading, Collected, CursorCovers
<1>2. Inv /\ Alone /\ InOrder /\ Behind /\ Collected /\ CursorCovers /\ [Next]_vars
      => Inv' /\ Alone' /\ InOrder' /\ Behind' /\ Collected' /\ CursorCovers'
  BY <1>0, StepInv, AloneStep, InOrderStep, BehindStep, CoversStep
<1> QED BY <1>1, <1>2, InitInv, InitAlone, PTL DEF Spec

----------------------------------------------------------------------------
(* The owner's words.                                                        *)

OwnerNodes(m) == {n \in Members(m) : member[n].authored_by = "owner"}

\* Times are of the past, and every node has an event.
Times == \A m \in DOMAIN maps : maps[m].last_owner_write_at <= clock /\ maps[m].last_agent_read_at <= clock
HasEvent == \A n \in DOMAIN member : \E e \in events : e.node = n /\ e.map = member[n].map

\* A word of the owner is newer than the last read of an agent, or was shown to one.
Heard ==
    \A m \in DOMAIN maps : \A n \in OwnerNodes(m) :
       /\ member[n].added_at <= maps[m].last_owner_write_at
       /\ member[n].added_at > maps[m].last_agent_read_at \/ AgentSaw(n)

\* A call that speaks for the owner is newer than both times of the map.
Speaking ==
    \A c \in Clients :
       /\ tx[c].pc # "idle" /\ tx[c].party = "owner" => tx[c].op \in {"write_owner", "answer"}
       /\ tx[c].pc \in {"begun", "written"} /\ tx[c].party = "owner" =>
             /\ maps[tx[c].map].last_owner_write_at <= tx[c].at
             /\ tx[c].at > maps[tx[c].map].last_agent_read_at
       /\ tx[c].pc # "idle" /\ c \in Web => tx[c].op \in WebOps

\* A map that is being closed has nothing unread.
Closing ==
    \A c \in Clients : tx[c].pc # "idle" /\ tx[c].op = "close" => unacknowledged_owner_input(tx[c].map) = {}

\* A read that is about to stamp the map shows every word of the owner that no
\* agent has seen.
ReadsAll ==
    \A c \in Clients : tx[c].pc = "touch" =>
       \A n \in OwnerNodes(tx[c].map) : AgentSaw(n) \/ \E e \in events : e.node = n /\ e.id \in tx[c].shown

OwnerInv == Times /\ HasEvent /\ Heard /\ Speaking /\ Closing /\ ReadsAll

\* The times of a map, and the clock.
LEMMA TimeFrame ==
    ASSUME Inv, NEW c \in Clients, Act(c)
    PROVE  /\ clock' \in Nat /\ clock <= clock'
           /\ \A m \in DOMAIN maps :
                /\ \/ maps'[m].last_owner_write_at = maps[m].last_owner_write_at
                   \/ /\ m = tx[c].map /\ tx[c].pc = "written" /\ tx[c].party = "owner"
                      /\ maps'[m].last_owner_write_at = tx[c].at
                /\ \/ maps'[m].last_agent_read_at = maps[m].last_agent_read_at
                   \/ GetTouch(c) /\ m = tx[c].map /\ maps'[m].last_agent_read_at = tx[c].at
           /\ \A m \in DOMAIN maps :
                (WriteNodeCommit(c) \/ AnswerCommit(c)) /\ m = tx[c].map /\ tx[c].party = "owner"
                => maps'[m].last_owner_write_at = tx[c].at
<1>0. clock \in Nat /\ Tables /\ \A m \in DOMAIN maps : maps[m] \in Map
  BY DEF Inv, Tables, TypeOK
<1>1. clock' = clock \/ clock' = Now
  BY CheckFrame DEF Act, Step, Commit, ClosePromote, GraphBegin, GraphWrite, ReviewFlag, GetHead, GetMembers, GetTouch,
     ReviewReset, OpenCommit, WriteNodeCommit, AnswerCommit, ResolveCommit, LinkCommit, CloseCommit, Rollback, Sequences
<1>2. clock' \in Nat /\ clock <= clock'
  BY <1>0, <1>1 DEF Now
<1>3. CASE WriteNodeCommit(c)
  BY <1>0, <1>2, <1>3 DEF WriteNodeCommit, OwnerWrite, Map
<1>4. CASE AnswerCommit(c)
  BY <1>0, <1>2, <1>4 DEF AnswerCommit, OwnerWrite, Map
<1>5. CASE GetTouch(c)
  BY <1>0, <1>2, <1>5 DEF GetTouch, Map, WriteNodeCommit, AnswerCommit
<1>6. CASE CloseCommit(c)
  BY <1>0, <1>2, <1>6 DEF CloseCommit, Map, WriteNodeCommit, AnswerCommit
<1>7. CASE ReviewReset(c)
  BY <1>0, <1>2, <1>7 DEF ReviewReset, Map, WriteNodeCommit, AnswerCommit
<1>8. CASE OpenCommit(c)
  <2>1. tx[c].map = tx[c].node /\ tx[c].node \notin DOMAIN maps
    BY <1>0, <1>8 DEF OpenCommit, Inv, CallOK, DrawnFits, Adds, Tables
  <2>2. \A m \in DOMAIN maps : maps'[m] = maps[m]
    BY <1>8, <2>1 DEF OpenCommit, With
  <2>3. ~WriteNodeCommit(c) /\ ~AnswerCommit(c)
    BY <1>8 DEF OpenCommit, WriteNodeCommit, AnswerCommit
  <2> QED BY <1>2, <2>2, <2>3
<1>9. CASE UNCHANGED maps /\ ~WriteNodeCommit(c) /\ ~AnswerCommit(c)
  BY <1>2, <1>9
<1>10. Check(c) \/ ClosePromote(c) \/ GraphBegin(c) \/ GraphWrite(c) \/ ReviewFlag(c) \/ GetHead(c) \/ GetMembers(c)
       \/ ResolveCommit(c) \/ LinkCommit(c) \/ Rollback(c) => UNCHANGED maps
  BY CheckFrame DEF ClosePromote, GraphBegin, GraphWrite, ReviewFlag, GetHead, GetMembers, ResolveCommit, LinkCommit, Rollback
<1> QED BY <1>3, <1>4, <1>5, <1>6, <1>7, <1>8, <1>9, <1>10 DEF Act, Step, Commit

\* Events stay visible, what was shown stays shown.
LEMMA SawStays ==
    ASSUME Inv, NEW c \in Clients, Act(c), "reply_cursor" \notin Ops
    PROVE  /\ events \subseteq events' /\ \A k \in Clients : told[k] \subseteq told'[k]
           /\ \A n : AgentSaw(n) => AgentSaw(n)'
<1>1. events \subseteq events'
  BY EventFrame
<1>2. \A k \in Clients : told[k] \subseteq told'[k]
  <2>1. CASE GetTouch(c)
    BY <2>1 DEF GetTouch, Inv, Tables
  <2> QED BY <2>1, CursorFrame
<1> QED BY <1>1, <1>2 DEF AgentSaw

\* A new word of the owner comes from a call that speaks for the owner.
LEMMA NewWord ==
    ASSUME Inv, Speaking, NEW c \in Clients, Act(c), NEW m, NEW n \in OwnerNodes(m)'
    PROVE  \/ n \in OwnerNodes(m) /\ member'[n].added_at = member[n].added_at /\ m \in DOMAIN maps
           \/ /\ WriteNodeCommit(c) \/ AnswerCommit(c)
              /\ tx[c].pc = "written" /\ tx[c].op \in {"write_owner", "answer"} /\ tx[c].party = "owner"
              /\ m = tx[c].map /\ m \in DOMAIN maps /\ member'[n].added_at = tx[c].at
<1>1. n \in DOMAIN member' /\ member'[n].map = m /\ member'[n].authored_by = "owner"
  BY DEF OwnerNodes, Members
<1>2. CASE n \in DOMAIN member
  <2>1. member[n].map = m /\ member[n].authored_by = "owner" /\ member'[n].added_at = member[n].added_at
    BY <1>1, <1>2, MemberFrame DEF SameRow
  <2> QED BY <1>2, <2>1 DEF OwnerNodes, Members, Inv, TypeOK
<1>3. CASE n \notin DOMAIN member
  <2>1. /\ OpenCommit(c) \/ WriteNodeCommit(c) \/ AnswerCommit(c)
        /\ m = tx[c].map /\ tx[c].party = "owner" /\ member'[n].added_at = tx[c].at
    BY <1>1, <1>3, MemberFrame
  <2>2. tx[c].pc = "written"
    BY <2>1 DEF OpenCommit, WriteNodeCommit, AnswerCommit
  <2>3. tx[c].op \in {"write_owner", "answer"}
    BY <2>1, <2>2 DEF Speaking
  <2>4. ~OpenCommit(c)
    BY <2>3 DEF OpenCommit
  <2>5. m \in DOMAIN maps
    BY <2>1, <2>2, <2>3 DEF Inv, CallOK, ArgsFit
  <2> QED BY <2>1, <2>2, <2>3, <2>4, <2>5
<1> QED BY <1>2, <1>3

\* While a call of Solo is under way, another client can only begin a call.
LEMMA OnlyBegins ==
    ASSUME Inv, Alone, NEW c \in Clients, Act(c), NEW d \in Clients, d # c, tx[d].pc # "idle", tx[d].op \in Solo
    PROVE  Check(c) /\ UNCHANGED <<maps, member, events, cursor, told>>
BY PcFrame, CheckFrame DEF Alone

LEMMA TimesStep ==
    ASSUME Inv, Times, HasEvent, NEW c \in Clients, Act(c)
    PROVE  Times' /\ HasEvent'
<1>0. clock \in Nat /\ clock' \in Nat /\ clock <= clock' /\ TypeOK /\ TypeOK'
  BY TimeFrame, StepInv DEF Inv, Tables, Next, Act
<1>1. ASSUME NEW m \in DOMAIN maps'
      PROVE  maps'[m].last_owner_write_at <= clock' /\ maps'[m].last_agent_read_at <= clock'
  <2>1. maps'[m].last_owner_write_at \in Nat /\ maps'[m].last_agent_read_at \in Nat
    BY <1>0, <1>1 DEF TypeOK, Map
  <2>2. tx[c].pc \in {"written", "touch"} => tx[c].at \in Nat /\ tx[c].at <= clock
    BY <1>0 DEF Inv, CallOK, DrawnFits
  <2>3. CASE m \in DOMAIN maps
    <3>1. /\ maps'[m].last_owner_write_at <= clock
          /\ maps'[m].last_agent_read_at <= clock
      BY <2>2, <2>3, TimeFrame DEF Times, GetTouch
    <3> QED BY <1>0, <2>1, <3>1
  <2>4. CASE m \notin DOMAIN maps
    BY <1>0, <1>1, <2>4, MapFrame
  <2> QED BY <2>3, <2>4
<1>2. ASSUME NEW n \in DOMAIN member'
      PROVE  \E e \in events' : e.node = n /\ e.map = member'[n].map
  <2>1. CASE n \in DOMAIN member
    BY <2>1, MemberFrame, EventFrame DEF HasEvent, SameRow
  <2>2. CASE n \notin DOMAIN member
    <3>1. /\ OpenCommit(c) \/ WriteNodeCommit(c) \/ AnswerCommit(c)
          /\ n = tx[c].node /\ member'[n].map = tx[c].map
      BY <1>2, <2>2, MemberFrame
    <3>2. Logged(c) \in events' /\ Logged(c).node = tx[c].node /\ Logged(c).map = tx[c].map
      BY <3>1 DEF OpenCommit, WriteNodeCommit, AnswerCommit, Logged
    <3> QED BY <3>1, <3>2
  <2> QED BY <2>1, <2>2
<1> QED BY <1>1, <1>2 DEF Times, HasEvent

LEMMA HeardStep ==
    ASSUME Ops \cap {"reply_cursor", "web_get"} = {}, Inv, Heard, Speaking, ReadsAll, NEW c \in Clients, Act(c)
    PROVE  Heard'
<1>0. TypeOK /\ TypeOK' /\ clock \in Nat /\ "reply_cursor" \notin Ops
  BY StepInv DEF Inv, Tables, Next, Act
<1>1. SUFFICES ASSUME NEW m \in DOMAIN maps', NEW n \in OwnerNodes(m)'
               PROVE  /\ member'[n].added_at <= maps'[m].last_owner_write_at
                      /\ member'[n].added_at > maps'[m].last_agent_read_at \/ AgentSaw(n)'
  BY DEF Heard
<1>2. /\ member'[n].added_at \in Nat /\ maps'[m].last_owner_write_at \in Nat /\ maps'[m].last_agent_read_at \in Nat
      /\ m \in DOMAIN maps => maps[m].last_owner_write_at \in Nat /\ maps[m].last_agent_read_at \in Nat
  BY <1>0, <1>1 DEF TypeOK, Map, Member, OwnerNodes, Members
<1>3. CASE n \in OwnerNodes(m) /\ member'[n].added_at = member[n].added_at /\ m \in DOMAIN maps
  <2>1. /\ member[n].added_at <= maps[m].last_owner_write_at
        /\ member[n].added_at > maps[m].last_agent_read_at \/ AgentSaw(n)
    BY <1>3 DEF Heard
  <2>2. maps[m].last_owner_write_at <= maps'[m].last_owner_write_at
    BY <1>2, <1>3, TimeFrame DEF Speaking
  <2>3. CASE maps'[m].last_agent_read_at = maps[m].last_agent_read_at
    BY <1>0, <1>2, <1>3, <2>1, <2>2, <2>3, SawStays
  <2>4. CASE GetTouch(c) /\ m = tx[c].map
    <3>1. tx[c].pc = "touch" /\ told'[c] = told[c] \cup tx[c].shown
      BY <2>4 DEF GetTouch, Inv, Tables
    <3>2. c \notin Web
      BY <3>1 DEF Inv, CallOK, PcFits, ArgsFit, Speaking, Reads, WebOps
    <3>3. AgentSaw(n) \/ \E e \in events : e.node = n /\ e.id \in tx[c].shown
      BY <1>3, <2>4, <3>1 DEF ReadsAll
    <3>4. AgentSaw(n)'
      BY <1>0, <3>1, <3>2, <3>3, SawStays DEF AgentSaw
    <3> QED BY <1>2, <1>3, <2>1, <2>2, <3>4
  <2> QED BY <1>3, <2>3, <2>4, TimeFrame
<1>4. CASE /\ WriteNodeCommit(c) \/ AnswerCommit(c)
           /\ tx[c].pc = "written" /\ tx[c].op \in {"write_owner", "answer"} /\ tx[c].party = "owner"
           /\ m = tx[c].map /\ m \in DOMAIN maps /\ member'[n].added_at = tx[c].at
  <2>1. maps'[m].last_owner_write_at = tx[c].at
    BY <1>4, TimeFrame
  <2>2. ~GetTouch(c)
    BY <1>4 DEF GetTouch
  <2>3. maps'[m].last_agent_read_at = maps[m].last_agent_read_at
    BY <1>4, <2>2, TimeFrame
  <2>4. tx[c].at > maps[m].last_agent_read_at
    BY <1>4 DEF Speaking
  <2> QED BY <1>2, <1>4, <2>1, <2>3, <2>4
<1> QED BY <1>1, <1>3, <1>4, NewWord

LEMMA SpeakingStep ==
    ASSUME {"write_owner", "answer"} \subseteq Solo, Inv, Alone, Times, Speaking, NEW c \in Clients, Act(c)
    PROVE  Speaking'
<1>0. TypeOK /\ clock \in Nat /\ tx \in [Clients -> TxType] /\ tx[c] \in TxType
  BY DEF Inv, Tables
<1>1. SUFFICES ASSUME NEW d \in Clients, tx'[d].pc # "idle"
               PROVE  /\ tx'[d].party = "owner" => tx'[d].op \in {"write_owner", "answer"}
                      /\ tx'[d].pc \in {"begun", "written"} /\ tx'[d].party = "owner" =>
                            /\ maps'[tx'[d].map].last_owner_write_at <= tx'[d].at
                            /\ tx'[d].at > maps'[tx'[d].map].last_agent_read_at
                      /\ d \in Web => tx'[d].op \in WebOps
  BY DEF Speaking
<1>2. CASE d = c /\ Check(c)
  <2>1. PICK t \in TxType : tx' = [tx EXCEPT ![c] = t] /\ Checked(c, t)
    BY <1>2, CheckFrame
  <2>2. tx'[d] = t
    BY <1>0, <1>2, <2>1
  <2> QED BY <1>2, <2>1, <2>2 DEF Checked
<1>3. CASE d = c /\ ~Check(c)
  <2>1. /\ tx[c].pc # "idle" /\ tx'[c].op = tx[c].op /\ tx'[c].party = tx[c].party
    BY <1>1, <1>3, CallFrame, PcFrame, IdleType
  <2>2. ASSUME tx'[c].pc \in {"begun", "written"}, tx'[c].party = "owner"
        PROVE  /\ maps'[tx'[c].map].last_owner_write_at <= tx'[c].at
               /\ tx'[c].at > maps'[tx'[c].map].last_agent_read_at
    <3>0. tx[c].op \in {"write_owner", "answer"} /\ tx[c].map \in DOMAIN maps
      BY <2>1, <2>2 DEF Speaking, Inv, CallOK, ArgsFit
    <3>1. CASE GraphBegin(c)
      <4>1. tx'[c].map = tx[c].map /\ tx'[c].at = Now /\ UNCHANGED maps
        BY <1>0, <3>1 DEF GraphBegin, TxType
      <4>2. /\ maps[tx[c].map].last_owner_write_at \in Nat /\ maps[tx[c].map].last_agent_read_at \in Nat
            /\ maps[tx[c].map].last_owner_write_at <= clock /\ maps[tx[c].map].last_agent_read_at <= clock
        BY <1>0, <3>0 DEF TypeOK, Map, Times
      <4> QED BY <1>0, <4>1, <4>2 DEF Now
    <3>2. CASE GraphWrite(c)
      <4>1. tx'[c].map = tx[c].map /\ tx'[c].at = tx[c].at /\ UNCHANGED maps /\ tx[c].pc = "begun"
        BY <1>0, <3>0, <3>2 DEF GraphWrite, TxType
      <4> QED BY <2>1, <2>2, <4>1 DEF Speaking
    <3> QED BY <1>3, <2>2, <3>1, <3>2, PcFrame
  <2> QED BY <1>3, <2>1, <2>2 DEF Speaking
<1>4. CASE d # c
  <2>1. tx'[d] = tx[d]
    BY <1>4, CallFrame
  <2>2. tx[d].party = "owner" => UNCHANGED maps
    BY <1>1, <1>4, <2>1, OnlyBegins DEF Speaking
  <2> QED BY <1>1, <2>1, <2>2 DEF Speaking
<1> QED BY <1>2, <1>3, <1>4

LEMMA ClosingStep ==
    ASSUME "close" \in Solo, Inv, Alone, Closing, NEW c \in Clients, Act(c)
    PROVE  Closing'
<1>0. tx \in [Clients -> TxType]
  BY DEF Inv, Tables
<1>1. SUFFICES ASSUME NEW d \in Clients, tx'[d].pc # "idle", tx'[d].op = "close"
               PROVE  unacknowledged_owner_input(tx[d].map)' = {}
  BY DEF Closing
<1>2. UNCHANGED <<maps, member>> => \A m : unacknowledged_owner_input(m)' = unacknowledged_owner_input(m)
  BY DEF unacknowledged_owner_input, Members
<1>3. CASE d = c /\ Check(c)
  <2>1. PICK t \in TxType : tx' = [tx EXCEPT ![c] = t] /\ Checked(c, t) /\ UNCHANGED <<maps, member>>
    BY <1>3, CheckFrame
  <2>2. tx'[d] = t
    BY <1>0, <1>3, <2>1
  <2>3. unacknowledged_owner_input(t.map) = {}
    BY <1>1, <2>1, <2>2 DEF Checked
  <2> QED BY <1>2, <2>1, <2>2, <2>3
<1>4. CASE d = c /\ ~Check(c)
  <2>1. /\ tx[c].pc # "idle" /\ tx[c].op = "close" /\ tx'[c].map = tx[c].map
    BY <1>1, <1>4, CallFrame, PcFrame, IdleType
  <2>2. tx'[c].pc \in {"promoted", "begun", "written"}
    <3>1. PcFits(tx[c])' /\ tx'[c].pc \in {"promoted", "begun", "written", "flag", "fetch", "touch"}
      BY <1>1, <1>4, CallFrame, StepInv, IdleType DEF Inv, CallOK, Next, Act
    <3> QED BY <1>1, <1>4, <3>1 DEF PcFits, Writes, Reads
  <2>3. UNCHANGED <<maps, member>>
    BY <1>4, <2>2, PcFrame DEF ClosePromote, GraphBegin, GraphWrite
  <2> QED BY <1>2, <1>4, <2>1, <2>3 DEF Closing
<1>5. CASE d # c
  <2>1. tx'[d] = tx[d]
    BY <1>5, CallFrame
  <2>2. UNCHANGED <<maps, member>>
    BY <1>1, <1>5, <2>1, OnlyBegins
  <2> QED BY <1>1, <1>2, <2>1, <2>2 DEF Closing
<1> QED BY <1>3, <1>4, <1>5

LEMMA ReadsAllStep ==
    ASSUME {"write_owner", "answer"} \subseteq Solo, Ops \cap {"reply_cursor", "get_open_since", "web_get"} = {},
           Inv, Alone, Collected, CursorCovers, HasEvent, Speaking, ReadsAll, NEW c \in Clients, Act(c)
    PROVE  ReadsAll'
<1>0. tx \in [Clients -> TxType] /\ TypeOK /\ "reply_cursor" \notin Ops
  BY DEF Inv, Tables
<1>1. SUFFICES ASSUME NEW d \in Clients, tx'[d].pc = "touch", NEW n \in OwnerNodes(tx[d].map)'
               PROVE  AgentSaw(n)' \/ \E e \in events' : e.node = n /\ e.id \in tx'[d].shown
  BY DEF ReadsAll
<1>2. CASE d = c
  <2>1. GetMembers(c)
    BY <1>1, <1>2, PcFrame
  <2>2. PICK t \in TxType : t = tx[c]
    BY <1>0
  <2>3. /\ t.pc = "fetch" /\ UNCHANGED <<events, member, told, cursor>> /\ tx'[c].map = t.map
        /\ tx'[c].shown = {f.id : f \in {g \in events : g.map = t.map /\ g.node \in Returned(t)}}
    BY <1>0, <2>1, <2>2 DEF GetMembers, TxType, History
  <2>4. n \in Members(t.map) /\ n \in DOMAIN member
    BY <1>1, <1>2, <2>3 DEF OwnerNodes, Members
  <2>5. PICK e \in events : e.node = n /\ e.map = t.map
    BY <2>4 DEF HasEvent, Members
  <2>6. t.op \in Ops /\ t.op \in Reads
    BY <2>2, <2>3 DEF Inv, CallOK, PcFits, ArgsFit
  <2>7. n \in Returned(t) \/ (t.op = "get_since" /\ n \notin t.ids)
    <3>1. member[n].status \in AnyStatus
      BY <1>0, <2>4 DEF TypeOK, Member, AnyStatus
    <3> QED BY <2>4, <2>6, <3>1 DEF Returned, Delta, fetch_members
  <2>8. CASE n \in Returned(t)
    BY <1>2, <2>3, <2>5, <2>8
  <2>9. CASE t.op = "get_since" /\ n \notin t.ids
    <3>1. e.id <= cursor[c][e.map]
      BY <2>2, <2>3, <2>4, <2>5, <2>9 DEF Collected
    <3>2. e.id \in told[c]
      BY <2>4, <2>5, <3>1 DEF CursorCovers
    <3>3. c \notin Web
      BY <2>2, <2>3, <2>9 DEF Speaking, WebOps
    <3> QED BY <2>3, <2>5, <3>2, <3>3 DEF AgentSaw
  <2> QED BY <2>7, <2>8, <2>9
<1>3. CASE d # c
  <2>1. tx'[d] = tx[d]
    BY <1>3, CallFrame
  <2>2. n \in OwnerNodes(tx[d].map)
    <3>1. PICK m : m = tx[d].map
      OBVIOUS
    <3>2. n \in OwnerNodes(m)'
      BY <1>1, <2>1, <3>1
    <3>3. n \in OwnerNodes(m) \/ (tx[c].pc = "written" /\ tx[c].op \in {"write_owner", "answer"})
      BY <3>2, NewWord
    <3> QED BY <1>1, <1>3, <2>1, <3>1, <3>3 DEF Alone
  <2> QED BY <1>0, <1>1, <2>1, <2>2, SawStays DEF ReadsAll
<1> QED BY <1>2, <1>3

LEMMA OwnerStep ==
    ASSUME {"write_owner", "answer", "close"} \subseteq Solo,
           Ops \cap {"reply_cursor", "get_open_since", "web_get"} = {},
           Inv, Alone, Collected, CursorCovers, OwnerInv, [Next]_vars
    PROVE  OwnerInv'
<1>1. CASE Next
  <2>0. PICK c \in Clients : Act(c)
    BY <1>1 DEF Next, Act
  <2>1. Times' /\ HasEvent'
    BY <2>0, TimesStep DEF OwnerInv
  <2>2. Heard'
    <3>1. Ops \cap {"reply_cursor", "web_get"} = {}
      OBVIOUS
    <3> QED BY <2>0, <3>1, HeardStep DEF OwnerInv
  <2>3. Speaking' /\ Closing'
    BY <2>0, SpeakingStep, ClosingStep DEF OwnerInv
  <2>4. ReadsAll'
    BY <2>0, ReadsAllStep DEF OwnerInv
  <2> QED BY <2>1, <2>2, <2>3, <2>4 DEF OwnerInv
<1>2. CASE UNCHANGED vars
  BY <1>2 DEF vars, OwnerInv, Times, HasEvent, Heard, Speaking, Closing, ReadsAll, OwnerNodes, Members, AgentSaw,
     unacknowledged_owner_input
<1> QED BY <1>1, <1>2

\* "a map must not be settled past an owner node the agent never read": with the
\* premises of CursorsCover, when no call overlaps a write for the owner or
\* mindmap_close and only agents stamp reads, a map is archived only after a read
\* of an agent returned every node of the owner.
THEOREM NothingIsBuried ==
    ASSUME {"answer", "resolve", "link", "get_since", "flag", "write_owner", "close"} \subseteq Solo,
           Ops \cap {"reply_cursor", "get_open_since", "web_get"} = {}
    PROVE  Spec => NoBuriedInput
<1>0. /\ Logs \cup {"flag"} \subseteq Solo /\ Logs \cup {"flag", "get_since"} \subseteq Solo
      /\ "reply_cursor" \notin Ops /\ Ops \cap {"reply_cursor", "get_open_since"} = {}
      /\ {"write_owner", "answer", "close"} \subseteq Solo
  BY DEF Logs
<1>1. Init => InOrder /\ Behind /\ Collected /\ CursorCovers /\ OwnerInv
  BY IdleType DEF Init, InOrder, Behind, Reading, Collected, CursorCovers, OwnerInv, Times, HasEvent, Heard, Speaking,
     Closing, ReadsAll
<1>2. Inv /\ Alone /\ InOrder /\ Behind /\ Collected /\ CursorCovers /\ OwnerInv /\ [Next]_vars
      => Inv' /\ Alone' /\ InOrder' /\ Behind' /\ Collected' /\ CursorCovers' /\ OwnerInv'
  BY <1>0, StepInv, AloneStep, InOrderStep, BehindStep, CoversStep, OwnerStep
<1>3. ASSUME Inv, OwnerInv, [Next]_vars, NEW m \in LiveMaps, maps'[m].state = "archived",
             NEW n \in Members(m), member[n].authored_by = "owner"
      PROVE  AgentSaw(n)
  <2>1. m \in DOMAIN maps /\ maps[m].state = "live" /\ n \in OwnerNodes(m) /\ n \in DOMAIN member
    BY <1>3 DEF LiveMaps, OwnerNodes, Members
  <2>2. Next
    BY <1>3, <2>1 DEF vars
  <2>3. PICK c \in Clients : Act(c)
    BY <2>2 DEF Next, Act
  <2>4. CloseCommit(c) /\ m = tx[c].map
    BY <1>3, <2>1, <2>3, MapFrame
  <2>5. unacknowledged_owner_input(m) = {}
    BY <1>3, <2>4 DEF OwnerInv, Closing, CloseCommit
  <2>6. /\ member[n].added_at <= maps[m].last_owner_write_at
        /\ member[n].added_at > maps[m].last_agent_read_at \/ AgentSaw(n)
    BY <1>3, <2>1 DEF OwnerInv, Heard
  <2>7. /\ member[n].added_at \in Nat /\ maps[m].last_owner_write_at \in Nat /\ maps[m].last_agent_read_at \in Nat
    BY <1>3, <2>1 DEF Inv, TypeOK, Map, Member
  <2> QED BY <1>3, <2>5, <2>6, <2>7 DEF unacknowledged_owner_input
<1>4. Inv /\ OwnerInv /\ [Next]_vars =>
      [\A m \in LiveMaps :
          maps'[m].state = "archived" =>
             \A n \in Members(m) : member[n].authored_by = "owner" => AgentSaw(n)]_vars
  BY <1>3
<1> QED BY <1>1, <1>2, <1>4, InitInv, InitAlone, PTL DEF Spec, NoBuriedInput
=============================================================================
