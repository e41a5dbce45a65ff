----------------------- MODULE MessageDispatchProofs -----------------------
(***************************************************************************)
(* TLAPS proofs about the dispatch of messages to handlers, for every      *)
(* number of handlers, ids and messages, and for an application that keeps *)
(* to the rules of Careful: handlers may post, subscribe, unsubscribe and  *)
(* destroy others while Loop is in the middle of a list.                   *)
(***************************************************************************)
EXTENDS MessageQueueProofs

(* The elements of a list from one place on.                                *)
From(s, k) == {s[j] : j \in k..Len(s)}

Injective(s) == \A i, j \in 1..Len(s) : s[i] = s[j] => i = j

(* A node at the head moves the others by one and is before all of them.    *)
LEMMA PrependTail ==
    ASSUME NEW S, NEW s \in Seq(S), NEW h \in S, NEW k \in 1..Len(s)
    PROVE  LET t == <<h>> \o s
           IN  k + 1 \in 1..Len(t) /\ t[k + 1] = s[k] /\ From(t, k + 2) = From(s, k + 1)
  <1> DEFINE t == <<h>> \o s
  <1>1. /\ t \in Seq(S) /\ Len(t) = Len(s) + 1 /\ Len(s) \in Nat
        /\ \A j \in 1..Len(s) : t[j + 1] = s[j]
    BY PrependFacts
  <1> HIDE DEF t
  <1>2. From(s, k + 1) \subseteq From(t, k + 2)
    <2>1. ASSUME NEW j \in (k + 1)..Len(s) PROVE s[j] \in From(t, k + 2)
      <3>1. j + 1 \in (k + 2)..Len(t) /\ s[j] = t[j + 1]
        BY <1>1
      <3> QED BY <3>1 DEF From
    <2> QED BY <2>1 DEF From
  <1>3. From(t, k + 2) \subseteq From(s, k + 1)
    <2>1. ASSUME NEW j \in (k + 2)..Len(t) PROVE t[j] \in From(s, k + 1)
      <3>1. j - 1 \in (k + 1)..Len(s) /\ j - 1 \in 1..Len(s) /\ (j - 1) + 1 = j
        BY <1>1
      <3>2. t[j] = s[j - 1]
        BY <1>1, <3>1
      <3> QED BY <3>1, <3>2 DEF From
    <2> QED BY <2>1 DEF From
  <1>4. k + 1 \in 1..Len(t) /\ t[k + 1] = s[k]
    BY <1>1
  <1> QED BY <1>2, <1>3, <1>4 DEF t

(* Removing another node keeps the cursor's node, and removes the other     *)
(* from what comes after it.                                                *)
LEMMA RemoveTail ==
    ASSUME NEW S, NEW s \in Seq(S), Injective(s), NEW k \in 1..Len(s), NEW i \in 1..Len(s), i # k
    PROVE  LET t == RemoveAt(s, i)
           IN  \E m \in 1..Len(t) :
                 t[m] = s[k] /\ From(t, m + 1) = From(s, k + 1) \ {s[i]}
  <1> DEFINE t == RemoveAt(s, i)
             m == IF i < k THEN k - 1 ELSE k
  <1>1. /\ t \in Seq(S) /\ Len(t) = Len(s) - 1 /\ Len(s) \in Nat
        /\ \A j \in 1..(Len(s) - 1) : t[j] = IF j < i THEN s[j] ELSE s[j + 1]
    <2>1. Len(s) \in Nat
      OBVIOUS
    <2> QED BY <2>1, RemoveAtFacts
  <1>2. k \in Int /\ i \in Int /\ 1 <= k /\ k <= Len(s) /\ 1 <= i /\ i <= Len(s)
    BY <1>1
  <1> HIDE DEF t
  <1>3. m \in 1..Len(t) /\ t[m] = s[k]
    BY <1>1, <1>2
  <1>4. From(t, m + 1) \subseteq From(s, k + 1) \ {s[i]}
    <2>1. ASSUME NEW j \in (m + 1)..Len(t) PROVE t[j] \in From(s, k + 1) /\ t[j] # s[i]
      <3> DEFINE q == IF j < i THEN j ELSE j + 1
      <3>1. j \in 1..(Len(s) - 1) /\ q \in (k + 1)..Len(s) /\ q \in 1..Len(s) /\ q # i
        BY <1>1, <1>2
      <3>2. t[j] = s[q]
        BY <1>1, <3>1
      <3> HIDE DEF q
      <3>3. s[q] # s[i]
        BY <3>1 DEF Injective
      <3> QED BY <3>1, <3>2, <3>3 DEF From
    <2> QED BY <2>1 DEF From
  <1>5. From(s, k + 1) \ {s[i]} \subseteq From(t, m + 1)
    <2>1. ASSUME NEW q \in (k + 1)..Len(s), q # i PROVE s[q] \in From(t, m + 1)
      <3> DEFINE j == IF q < i THEN q ELSE q - 1
      <3>1. j \in (m + 1)..Len(t) /\ j \in 1..(Len(s) - 1) /\ q = IF j < i THEN j ELSE j + 1
        BY <1>1, <1>2, <2>1
      <3>2. t[j] = s[q]
        BY <1>1, <3>1
      <3> HIDE DEF j
      <3> QED BY <3>1, <3>2 DEF From
    <2> QED BY <2>1 DEF From
  <1> HIDE DEF m
  <1> QED BY <1>3, <1>4, <1>5 DEF t

(* The row of the message that is dispatched, and the address of a node.    *)
LEMMA RowFacts ==
    ASSUME TypeOK, RowInv, NEW id \in MsgIds
    PROVE  /\ QueueBlock[id] \in Seq(Handler) /\ Len(QueueBlock[id]) \in Nat
           /\ DOMAIN QueueBlock[id] = 1..Len(QueueBlock[id])
           /\ Injective(QueueBlock[id])
           /\ \A k \in 1..Len(QueueBlock[id]) : QueueBlock[id][k] \in Handler
  <1> DEFINE row == QueueBlock[id]
  <1>1. row \in Seq(Handler)
    BY DEF TypeOK
  <1>2. \A j, k \in DOMAIN row : Addr[row[j]] = Addr[row[k]] => j = k
    BY DEF RowInv
  <1> HIDE DEF row
  <1>3. Len(row) \in Nat /\ DOMAIN row = 1..Len(row) /\ \A k \in 1..Len(row) : row[k] \in Handler
    BY <1>1
  <1>4. Injective(row)
    BY <1>2, <1>3 DEF Injective
  <1> QED BY <1>1, <1>3, <1>4 DEF row

(* The cursor in terms of the elements from a place on.                     *)
LEMMA CursorForm ==
    CursorInv <=>
      /\ ~stale
      /\ pc = "handlers" /\ curHandler # NULL =>
           \E k \in 1..Len(Row) : Row[k] = curHandler /\ owed = From(Row, k)
      /\ pc = "handler" =>
           \E k \in 1..Len(Row) : Row[k] = curHandler /\ owed = From(Row, k + 1)
      /\ (pc = "handlers" /\ curHandler = NULL) \/ pc = "free" => owed = {}
  BY DEF CursorInv, Cursor, From

(* The same after a step.                                                   *)
LEMMA CursorAgain ==
    ASSUME ~stale',
           pc' = "handlers" /\ curHandler' # NULL =>
             \E k \in 1..Len(Row') : Row'[k] = curHandler' /\ owed' = From(Row', k),
           pc' = "handler" =>
             \E k \in 1..Len(Row') : Row'[k] = curHandler' /\ owed' = From(Row', k + 1),
           (pc' = "handlers" /\ curHandler' = NULL) \/ pc' = "free" => owed' = {}
    PROVE  CursorInv'
  BY DEF CursorInv, Cursor, From

-----------------------------------------------------------------------------
(* Nothing is subscribed, owed or being called.                             *)
LEMMA InitDispatchInv == Init => DispatchInv
  BY DEF Init, DispatchInv, CallInv, CursorInv

(* Steps that touch neither handlers nor the cursor, and begin no           *)
(* registration.                                                            *)
LEMMA QuietDispatchInv ==
    ASSUME DispatchInv, UNCHANGED <<QueueBlock, alive, curHandler, stale, owed, msg, pc>>,
           pc \in {"handlers", "handler"} => body'[msg] = body[msg],
           stage' \in {"sub", "unsub"} => UNCHANGED <<stage, req>>
    PROVE  DispatchInv'
  <1>1. CallInv'
    BY DEF DispatchInv, CallInv, Matches
  <1>2. CursorInv'
    BY DEF DispatchInv, CursorInv, Cursor, Row
  <1> QED BY <1>1, <1>2 DEF DispatchInv

(* Steps of Loop between two dispatches.                                    *)
LEMMA LoopDispatchInv ==
    ASSUME DispatchInv, UNCHANGED <<QueueBlock, alive, stale, stage, req>>,
           pc' \notin {"handlers", "handler", "free"}
    PROVE  DispatchInv'
  <1>1. CallInv'
    BY DEF DispatchInv, CallInv, Matches
  <1>2. CursorInv'
    BY DEF DispatchInv, CursorInv
  <1> QED BY <1>1, <1>2 DEF DispatchInv

(* Calls that begin: a careful application does not unsubscribe the handler *)
(* that runs.                                                               *)
LEMMA AppDispatchInv ==
    ASSUME Careful, MessageInv, DispatchInv,
           \/ \E r \in Receiver : DestroyReceiver(r) \/ UnsubscribeAllIDs(r)
           \/ \E id \in SubIds, h \in Handler : Subscribe(id, h) \/ Unsubscribe(id, h)
    PROVE  DispatchInv'
  <1>1. stage = "none" /\ UNCHANGED <<QueueBlock, curHandler, stale, owed, msg, pc, body>>
    BY DEF DestroyReceiver, UnsubscribeAllIDs, Subscribe, Unsubscribe, MayCall, AppRuns,
           listVars, loopVars
  <1>2. CursorInv'
    BY <1>1 DEF DispatchInv, CursorInv, Cursor, Row
  <1>3. /\ \A id \in MsgIds : \A k \in DOMAIN QueueBlock[id] :
             QueueBlock[id][k] \in Handler /\ alive[QueueBlock[id][k]] # "detached"
        /\ alive \in [Handler -> {"yes", "detached", "no"}]
    BY RowFacts DEF MessageInv, DispatchInv, CallInv, TypeOK
  <1>4. pc = "handler" => body[msg].msgid \in MsgIds
    BY DEF MessageInv, ContextInv, ContentInv
  <1>5. ASSUME NEW r \in Receiver, DestroyReceiver(r) PROVE CallInv'
    <2>1. alive' = [alive EXCEPT ![r] = "no"] /\ stage' = stage
      BY <1>5 DEF DestroyReceiver, callVars
    <2>2. \A id \in MsgIds : \A k \in DOMAIN QueueBlock[id] :
            alive'[QueueBlock[id][k]] # "detached"
      BY <1>3, <2>1
    <2> QED BY <1>1, <2>1, <2>2 DEF CallInv
  <1>6. ASSUME NEW r \in Receiver, UnsubscribeAllIDs(r) PROVE CallInv'
    <2>1. /\ alive' = alive /\ stage' = "unsub"
          /\ req' = [msgid |-> 0, handler |-> r, all |-> TRUE]
          /\ \A id \in MsgIds : ~Running(id, r)
      BY <1>6 DEF UnsubscribeAllIDs
    <2>2. \A id \in MsgIds : ~(id < req'.msgid)
      BY <2>1, SizeAssumption DEF MsgIds
    <2>3. pc = "handler" => Addr[curHandler] # Addr[r]
      BY <1>4, <2>1 DEF Running
    <2> QED BY <1>1, <1>3, <2>1, <2>2, <2>3 DEF CallInv
  <1>7. ASSUME NEW id \in SubIds, NEW h \in Handler, Subscribe(id, h) PROVE CallInv'
    <2>1. /\ alive' = [alive EXCEPT ![h] = "yes"] /\ stage' = "sub"
          /\ req' = [msgid |-> id, handler |-> h, all |-> FALSE]
      BY <1>7 DEF Subscribe
    <2>2. \A i \in MsgIds : \A k \in DOMAIN QueueBlock[i] :
            alive'[QueueBlock[i][k]] # "detached"
      BY <1>3, <2>1
    <2>3. alive'[req'.handler] = "yes"
      BY <1>3, <2>1
    <2> QED BY <1>1, <2>1, <2>2, <2>3 DEF CallInv
  <1>8. ASSUME NEW id \in SubIds, NEW h \in Handler, Unsubscribe(id, h) PROVE CallInv'
    <2>1. /\ alive' = alive /\ stage' = "unsub" /\ ~Running(id, h)
          /\ req' = [msgid |-> id, handler |-> h, all |-> FALSE]
      BY <1>8 DEF Unsubscribe
    <2>2. pc = "handler" /\ body[msg].msgid = id => Addr[curHandler] # Addr[h]
      BY <2>1 DEF Running
    <2> QED BY <1>1, <1>3, <2>1, <2>2 DEF CallInv
  <1> QED BY <1>2, <1>5, <1>6, <1>7, <1>8 DEF DispatchInv

(* Loop's own steps along the list.                                         *)
LEMMA WalkDispatchInv ==
    ASSUME MessageInv, DispatchInv,
           Dispatch \/ Call \/ HandlerReturn \/ DeleteContext
    PROVE  DispatchInv'
  <1>1. /\ UNCHANGED <<QueueBlock, alive, stage, req, msg, body>> /\ stage = "none" /\ ~stale
        /\ ~stale' /\ Row' = Row
    BY DEF Dispatch, Call, HandlerReturn, DeleteContext, callVars, listVars, MessageInv, ListInv,
           ControlInv, DispatchInv, CursorInv, Row, MayCall, AppRuns
  <1>2. CallInv'
    BY <1>1 DEF DispatchInv, CallInv
  <1>3. CASE Dispatch
    <2>1. /\ body[msg].msgid \in MsgIds /\ pc' = "handlers" /\ owed' = ToSet(Row)
          /\ curHandler' = IF Row = <<>> THEN NULL ELSE Head(Row)
      BY <1>3 DEF Dispatch, Row
    <2>2. Row \in Seq(Handler)
      BY <2>1, RowFacts DEF MessageInv, Row
    <2>3. Len(Row) \in Nat /\ DOMAIN Row = 1..Len(Row) /\ (Row = <<>> <=> Len(Row) = 0)
      BY <2>2
    <2>4. owed' = From(Row, 1)
      BY <2>1, <2>3 DEF ToSet, From
    <2>5. CASE Row = <<>>
      <3>1. owed' = {}
        BY <2>3, <2>4, <2>5 DEF From
      <3>2. CursorInv'
        BY <1>1, <2>1, <2>5, <3>1, CursorAgain
      <3> QED BY <1>2, <3>2 DEF DispatchInv
    <2>6. CASE Row # <<>>
      <3>1. 1 \in 1..Len(Row) /\ curHandler' = Row[1] /\ curHandler' \in Handler
        BY <2>1, <2>2, <2>3, <2>6
      <3>2. curHandler' # NULL
        BY <3>1, NullAssumption
      <3>3. CursorInv'
        BY <1>1, <2>1, <2>4, <3>1, <3>2, CursorAgain
      <3> QED BY <1>2, <3>3 DEF DispatchInv
    <2> QED BY <2>5, <2>6
  <1>4. CASE Call
    <2>1. /\ pc = "handlers" /\ curHandler # NULL /\ pc' = "handler" /\ curHandler' = curHandler
          /\ owed' = owed \ {curHandler} /\ body[msg].msgid \in MsgIds
      BY <1>4 DEF Call, MessageInv, ContextInv, ContentInv
    <2>2. PICK k \in 1..Len(Row) : Row[k] = curHandler /\ owed = From(Row, k)
      BY <2>1, CursorForm DEF DispatchInv
    <2>3. Row \in Seq(Handler) /\ Injective(Row) /\ Len(Row) \in Nat
      BY <2>1, RowFacts DEF MessageInv, Row
    <2>4. From(Row, k) \ {Row[k]} = From(Row, k + 1)
      <3>1. ASSUME NEW j \in k..Len(Row), Row[j] # Row[k] PROVE Row[j] \in From(Row, k + 1)
        <4>1. j \in (k + 1)..Len(Row)
          BY <2>3, <3>1
        <4> QED BY <4>1 DEF From
      <3>2. ASSUME NEW j \in (k + 1)..Len(Row) PROVE Row[j] \in From(Row, k) /\ Row[j] # Row[k]
        <4>1. j \in k..Len(Row) /\ j \in 1..Len(Row) /\ j # k
          BY <2>3
        <4> QED BY <2>3, <4>1 DEF From, Injective
      <3>3. From(Row, k) \ {Row[k]} \subseteq From(Row, k + 1)
        BY <3>1 DEF From
      <3>4. From(Row, k + 1) \subseteq From(Row, k) \ {Row[k]}
        BY <3>2 DEF From
      <3> QED BY <3>3, <3>4
    <2>5. CursorInv'
      BY <1>1, <2>1, <2>2, <2>4, CursorAgain
    <2> QED BY <1>2, <2>5 DEF DispatchInv
  <1>5. CASE HandlerReturn
    <2>1. /\ pc = "handler" /\ pc' = "handlers" /\ owed' = owed /\ body[msg].msgid \in MsgIds
      BY <1>5 DEF HandlerReturn, MessageInv, ContextInv, ContentInv
    <2>2. PICK k \in 1..Len(Row) : Row[k] = curHandler /\ owed = From(Row, k + 1)
      BY <2>1, CursorForm DEF DispatchInv
    <2>3. Row \in Seq(Handler) /\ Injective(Row) /\ Len(Row) \in Nat
          /\ \A j \in 1..Len(Row) : Row[j] \in Handler
      BY <2>1, RowFacts DEF MessageInv, Row
    <2>4. \A j \in 1..(Len(Row) - 1) : Row[j] = curHandler <=> j = k
      BY <2>2, <2>3 DEF Injective
    <2>5. IF After(Row, curHandler) = {} THEN curHandler' = NULL
          ELSE curHandler' \in After(Row, curHandler)
      BY <1>1, <1>5 DEF HandlerReturn, Row
    <2>6. CASE k = Len(Row)
      <3>1. After(Row, curHandler) = {}
        BY <2>3, <2>4, <2>6 DEF After
      <3>2. From(Row, k + 1) = {}
        BY <2>3, <2>6 DEF From
      <3>3. curHandler' = NULL /\ owed' = {}
        BY <2>1, <2>2, <2>5, <3>1, <3>2
      <3>4. CursorInv'
        BY <1>1, <2>1, <3>3, CursorAgain
      <3> QED BY <1>2, <3>4 DEF DispatchInv
    <2>7. CASE k # Len(Row)
      <3>1. k \in 1..(Len(Row) - 1) /\ k + 1 \in 1..Len(Row)
        BY <2>3, <2>7
      <3>2. {j \in 1..(Len(Row) - 1) : Row[j] = curHandler} = {k}
        BY <2>4, <3>1
      <3>3. After(Row, curHandler) = {Row[k + 1]}
        BY <3>2 DEF After
      <3>4. curHandler' = Row[k + 1] /\ curHandler' # NULL
        BY <2>3, <2>5, <3>1, <3>3, NullAssumption
      <3>5. CursorInv'
        BY <1>1, <2>1, <2>2, <3>1, <3>4, CursorAgain
      <3> QED BY <1>2, <3>5 DEF DispatchInv
    <2> QED BY <2>6, <2>7
  <1>6. CASE DeleteContext
    <2>1. owed' = {} /\ pc' = "free"
      BY <1>6 DEF DeleteContext, DispatchInv, CursorInv
    <2>2. CursorInv'
      BY <1>1, <2>1, CursorAgain
    <2> QED BY <1>2, <2>2 DEF DispatchInv
  <1> QED BY <1>3, <1>4, <1>5, <1>6

(* A new node is before the cursor: its handler is not called for this      *)
(* message, and the others are called as before.                            *)
LEMMA SubscribeDispatchInv ==
    ASSUME MessageInv, DispatchInv, SubscribeLink
    PROVE  DispatchInv'
  <1> DEFINE id == req.msgid
             h == req.handler
  <1>1. /\ id \in MsgIds /\ h \in Handler /\ alive[h] = "yes"
        /\ \/ QueueBlock' = QueueBlock
           \/ QueueBlock' = [QueueBlock EXCEPT ![id] = <<h>> \o QueueBlock[id]]
    BY SubscribeRow DEF MessageInv, SubscribeLink, DispatchInv, CallInv
  <1>2. /\ stage = "sub" /\ stage' = "none"
        /\ UNCHANGED <<alive, curHandler, stale, owed, msg, pc, body>>
        /\ pc \in {"app", "handler"}
    BY DEF SubscribeLink, listVars, loopVars, MessageInv, ListInv, ControlInv
  <1>3. CASE QueueBlock' = QueueBlock
    BY <1>2, <1>3, QuietDispatchInv
  <1>4. CASE QueueBlock' = [QueueBlock EXCEPT ![id] = <<h>> \o QueueBlock[id]]
    <2>1. /\ QueueBlock'[id] = <<h>> \o QueueBlock[id]
          /\ \A i \in MsgIds : i # id => QueueBlock'[i] = QueueBlock[i]
      BY <1>1, <1>4 DEF MessageInv, TypeOK
    <2> DEFINE s == QueueBlock[id]
               t == <<h>> \o s
    <2>2. s \in Seq(Handler) /\ Len(s) \in Nat /\ DOMAIN s = 1..Len(s)
      BY <1>1, RowFacts DEF MessageInv
    <2> HIDE DEF id, h, s
    <2>3. /\ t \in Seq(Handler) /\ Len(t) = Len(s) + 1 /\ t[1] = h
          /\ \A k \in 1..Len(s) : t[k + 1] = s[k]
      BY <1>1, <2>2, PrependFacts
    <2>4. \A k \in DOMAIN s : alive[s[k]] # "detached"
      BY <1>1 DEF DispatchInv, CallInv, s
    <2>5. \A k \in DOMAIN t : alive[t[k]] # "detached"
      <3>1. ASSUME NEW k \in DOMAIN t PROVE alive[t[k]] # "detached"
        <4>1. DOMAIN t = 1..Len(t)
          BY <2>3
        <4>2. k = 1 \/ (k - 1 \in 1..Len(s) /\ t[k] = s[k - 1])
          BY <2>2, <2>3, <4>1
        <4> QED BY <1>1, <2>2, <2>3, <2>4, <4>2
      <3> QED BY <3>1
    <2>6. \A i \in MsgIds : \A k \in DOMAIN QueueBlock'[i] : alive'[QueueBlock'[i][k]] # "detached"
      <3>1. ASSUME NEW i \in MsgIds
            PROVE  \A k \in DOMAIN QueueBlock'[i] : alive'[QueueBlock'[i][k]] # "detached"
        <4>1. CASE i = id
          BY <1>2, <2>1, <2>5, <4>1 DEF s
        <4>2. CASE i # id
          BY <1>2, <2>1, <4>2 DEF DispatchInv, CallInv
        <4> QED BY <4>1, <4>2
      <3> QED BY <3>1
    <2>7. CallInv'
      BY <1>2, <2>6 DEF CallInv
    <2>8. ~stale
      BY DEF DispatchInv, CursorInv
    <2>9. pc = "handler" =>
            \E k \in 1..Len(Row') : Row'[k] = curHandler' /\ owed' = From(Row', k + 1)
      <3> SUFFICES ASSUME pc = "handler"
                   PROVE  \E k \in 1..Len(Row') : Row'[k] = curHandler' /\ owed' = From(Row', k + 1)
        OBVIOUS
      <3>1. body[msg].msgid \in MsgIds /\ body' = body /\ msg' = msg
        BY <1>2 DEF MessageInv, ContextInv, ContentInv
      <3>2. PICK k \in 1..Len(Row) : Row[k] = curHandler /\ owed = From(Row, k + 1)
        BY CursorForm DEF DispatchInv
      <3>3. CASE body[msg].msgid = id
        <4>1. Row = s /\ Row' = t
          BY <2>1, <3>1, <3>3 DEF Row, s
        <4> HIDE DEF t
        <4>2. k + 1 \in 1..Len(t) /\ t[k + 1] = s[k] /\ From(t, k + 2) = From(s, k + 1)
          BY <1>1, <2>2, <3>2, <4>1, PrependTail DEF t
        <4>3. (k + 1) + 1 = k + 2
          BY <2>2, <4>1
        <4> QED BY <1>2, <3>2, <4>1, <4>2, <4>3
      <3>4. CASE body[msg].msgid # id
        <4>1. Row' = Row
          BY <2>1, <3>1, <3>4 DEF Row
        <4> QED BY <1>2, <3>2, <4>1
      <3> QED BY <3>3, <3>4
    <2>10. CursorInv'
      BY <1>2, <2>8, <2>9, CursorAgain
    <2> QED BY <2>7, <2>10 DEF DispatchInv
  <1> QED BY <1>1, <1>3, <1>4

(* A node is removed, which is not the cursor's: its handler is not called  *)
(* any more, and the others are called as before.                           *)
LEMMA UnsubscribeDispatchInv ==
    ASSUME MessageInv, DispatchInv, UnsubscribeUnlink
    PROVE  DispatchInv'
  <1>0. PICK id \in MsgIds, h \in Handler : id = req.msgid /\ h = req.handler
    BY UnsubscribeRow DEF MessageInv
  <1> DEFINE s == QueueBlock[id]
             here == pc = "handler" /\ body[msg].msgid = id
             Removed(i) ==
               /\ Matches(id, h) = {i}
               /\ Addr[s[i]] = Addr[h]
               /\ QueueBlock' = [QueueBlock EXCEPT ![id] = RemoveAt(s, i)]
               /\ owed' = IF here THEN owed \ {s[i]} ELSE owed
               /\ stale' = (stale \/ (here /\ s[i] = curHandler))
  <1>1. /\ req \in Registration
        /\ \/ Matches(id, h) = {} /\ UNCHANGED <<QueueBlock, owed, stale>>
           \/ \E i \in 1..Len(s) : Removed(i)
    BY <1>0, UnsubscribeRow DEF MessageInv
  <1>2. /\ stage = "unsub" /\ UNCHANGED <<curHandler, msg, pc, body>>
        /\ pc \in {"app", "handler"} /\ ~stale
    BY DEF UnsubscribeUnlink, listVars, MessageInv, ListInv, ControlInv, DispatchInv, CursorInv
  <1>3. /\ s \in Seq(Handler) /\ Len(s) \in Nat /\ DOMAIN s = 1..Len(s) /\ Injective(s)
    BY RowFacts DEF MessageInv
  <1>4. here => Addr[curHandler] # Addr[h]
    BY <1>0, <1>2 DEF DispatchInv, CallInv
  <1> HIDE DEF s, here
  (* No node of the row is left that matches, and the others were there.    *)
  <1>5. /\ \A i \in MsgIds : i # id => QueueBlock'[i] = QueueBlock[i]
        /\ \A k \in DOMAIN QueueBlock'[id] :
             Addr[QueueBlock'[id][k]] # Addr[h] /\ \E j \in 1..Len(s) : QueueBlock'[id][k] = s[j]
    <2>1. CASE Matches(id, h) = {} /\ UNCHANGED <<QueueBlock, owed, stale>>
      BY <1>3, <2>1 DEF Matches, s
    <2>2. ASSUME NEW i \in 1..Len(s), Removed(i)
          PROVE  /\ \A j \in MsgIds : j # id => QueueBlock'[j] = QueueBlock[j]
                 /\ \A k \in DOMAIN QueueBlock'[id] :
                      Addr[QueueBlock'[id][k]] # Addr[h]
                      /\ \E j \in 1..Len(s) : QueueBlock'[id][k] = s[j]
      <3> DEFINE t == RemoveAt(s, i)
      <3>1. QueueBlock'[id] = t /\ \A j \in MsgIds : j # id => QueueBlock'[j] = QueueBlock[j]
        BY <2>2 DEF MessageInv, TypeOK
      <3>2. /\ t \in Seq(Handler) /\ Len(t) = Len(s) - 1
            /\ \A k \in 1..(Len(s) - 1) : t[k] = IF k < i THEN s[k] ELSE s[k + 1]
        BY <1>3, RemoveAtFacts
      <3> HIDE DEF t
      <3>3. \A j \in 1..Len(s) : j # i => Addr[s[j]] # Addr[h]
        BY <1>3, <2>2 DEF Matches, s
      <3>4. ASSUME NEW k \in DOMAIN t
            PROVE  Addr[t[k]] # Addr[h] /\ \E j \in 1..Len(s) : t[k] = s[j]
        <4> DEFINE j == IF k < i THEN k ELSE k + 1
        <4>1. k \in 1..(Len(s) - 1)
          BY <1>3, <3>2
        <4>2. j \in 1..Len(s) /\ j # i /\ t[k] = s[j]
          BY <1>3, <3>2, <4>1
        <4> HIDE DEF j
        <4> QED BY <3>3, <4>2
      <3> QED BY <3>1, <3>4
    <2> HIDE DEF Removed
    <2> QED BY <1>1, <2>1, <2>2
  (* Rows that have been done and this one do not have the address.         *)
  <1>6. req.all => \A i \in MsgIds : i < id + 1 => Matches(i, h)' = {}
    <2> SUFFICES ASSUME req.all, NEW i \in MsgIds, i < id + 1 PROVE Matches(i, h)' = {}
      OBVIOUS
    <2>1. CASE i = id
      BY <1>5, <2>1 DEF Matches
    <2>2. CASE i # id
      <3>1. i < id
        BY <2>2 DEF MsgIds
      <3>2. Matches(i, h) = {}
        BY <1>0, <1>2, <3>1 DEF DispatchInv, CallInv
      <3> QED BY <1>5, <2>2, <3>2 DEF Matches
    <2> QED BY <2>1, <2>2
  <1>7. \A i \in MsgIds : \A k \in DOMAIN QueueBlock'[i] : alive[QueueBlock'[i][k]] # "detached"
    <2>1. \A j \in 1..Len(s) : alive[s[j]] # "detached"
      BY <1>3 DEF DispatchInv, CallInv, s
    <2>2. ASSUME NEW i \in MsgIds
          PROVE  \A k \in DOMAIN QueueBlock'[i] : alive[QueueBlock'[i][k]] # "detached"
      <3>1. CASE i = id
        BY <1>5, <2>1, <3>1
      <3>2. CASE i # id
        BY <1>5, <3>2 DEF DispatchInv, CallInv
      <3> QED BY <3>1, <3>2
    <2> QED BY <2>2
  <1>8. CallInv'
    <2>1. CASE req.all /\ id + 1 \in MsgIds
      <3>1. req' = [req EXCEPT !.msgid = id + 1] /\ UNCHANGED <<stage, alive>>
        BY <1>0, <2>1 DEF UnsubscribeUnlink
      <3>2. req'.msgid = id + 1 /\ req'.handler = h /\ req'.all = req.all
        BY <1>0, <1>1, <3>1 DEF Registration
      <3>3. pc = "handler" => Addr[curHandler] # Addr[h]
        BY <1>0, <1>2, <2>1 DEF DispatchInv, CallInv
      <3>4. \A i \in MsgIds : i < req'.msgid => Matches(i, req.handler)' = {}
        BY <1>6, <2>1, <3>2 DEF Matches
      <3> QED BY <1>2, <1>7, <3>1, <3>2, <3>3, <3>4 DEF CallInv
    <2>2. CASE ~(req.all /\ id + 1 \in MsgIds)
      <3>1. /\ stage' = "none"
            /\ alive' = IF req.all THEN [alive EXCEPT ![h] = "detached"] ELSE alive
        BY <1>0, <2>2 DEF UnsubscribeUnlink
      <3>2. CASE ~req.all
        BY <1>7, <3>1, <3>2 DEF CallInv
      <3>3. CASE req.all
        <4>1. \A i \in MsgIds : i < id + 1
          BY <2>2, <3>3, SizeAssumption DEF MsgIds
        <4>2. \A i \in MsgIds : \A k \in DOMAIN QueueBlock'[i] : QueueBlock'[i][k] # h
          BY <1>6, <3>3, <4>1 DEF Matches
        <4>3. \A i \in MsgIds : \A k \in DOMAIN QueueBlock'[i] :
                alive'[QueueBlock'[i][k]] # "detached"
          BY <1>7, <3>1, <3>3, <4>2 DEF MessageInv, TypeOK
        <4> QED BY <3>1, <4>3 DEF CallInv
      <3> QED BY <3>2, <3>3
    <2> QED BY <2>1, <2>2
  <1>9. CursorInv'
    <2>1. CASE ~here
      <3>1. owed' = owed /\ ~stale'
        <4>1. ASSUME NEW i \in 1..Len(s), Removed(i) PROVE owed' = owed /\ stale' = FALSE
          BY <1>2, <2>1, <4>1
        <4>2. CASE UNCHANGED <<QueueBlock, owed, stale>>
          BY <1>2, <4>2
        <4> HIDE DEF Removed
        <4> QED BY <1>1, <4>1, <4>2, Zenon
      <3>2. pc = "handler" => Row' = Row
        BY <1>2, <1>5, <2>1 DEF Row, here, MessageInv, ContextInv, ContentInv
      <3>3. pc = "handler" =>
              \E k \in 1..Len(Row') : Row'[k] = curHandler' /\ owed' = From(Row', k + 1)
        BY <1>2, <3>1, <3>2, CursorForm DEF DispatchInv
      <3> QED BY <1>2, <3>1, <3>3, CursorAgain
    <2>2. CASE here /\ UNCHANGED <<QueueBlock, owed, stale>>
      <3>1. Row' = Row
        BY <1>2, <2>2 DEF Row
      <3>2. \E k \in 1..Len(Row') : Row'[k] = curHandler' /\ owed' = From(Row', k + 1)
        BY <1>2, <2>2, <3>1, CursorForm DEF DispatchInv, here
      <3> QED BY <1>2, <2>2, <3>2, CursorAgain
    <2>3. ASSUME here, NEW i \in 1..Len(s), Removed(i) PROVE CursorInv'
      <3> DEFINE t == RemoveAt(s, i)
      <3>1. pc = "handler" /\ body[msg].msgid = id
        BY <2>3 DEF here
      <3>2. Row = s /\ Row' = t
        <4>1. QueueBlock'[id] = t
          BY <2>3 DEF MessageInv, TypeOK
        <4> QED BY <1>2, <3>1, <4>1 DEF Row, s
      <3>3. PICK k \in 1..Len(s) : s[k] = curHandler /\ owed = From(s, k + 1)
        BY <3>1, <3>2, CursorForm DEF DispatchInv
      <3>4. i # k /\ s[i] # curHandler
        BY <1>4, <2>3, <3>3
      <3>5. \E m \in 1..Len(t) : t[m] = s[k] /\ From(t, m + 1) = From(s, k + 1) \ {s[i]}
        BY <1>3, <3>4, RemoveTail
      <3>6. owed' = owed \ {s[i]} /\ ~stale'
        BY <1>2, <2>3, <3>4
      <3> HIDE DEF t
      <3>7. \E m \in 1..Len(Row') : Row'[m] = curHandler' /\ owed' = From(Row', m + 1)
        BY <1>2, <3>2, <3>3, <3>5, <3>6
      <3> QED BY <1>2, <3>1, <3>6, <3>7, CursorAgain
    <2> HIDE DEF Removed
    <2> QED BY <1>1, <2>1, <2>2, <2>3
  <1> QED BY <1>8, <1>9 DEF DispatchInv

-----------------------------------------------------------------------------
(* Every step of a careful application, of the kernel and of an interrupt.  *)
LEMMA NextDispatchInv ==
    ASSUME Careful, MessageInv, DispatchInv, [Next]_vars
    PROVE  DispatchInv'
  <1> USE DEF listVars, loopVars, callVars
  <1>1. CASE EnterCritical \/ LeaveCritical
    BY <1>1, QuietDispatchInv DEF EnterCritical, LeaveCritical
  <1>2. ASSUME NEW m \in Message, Post(m) PROVE DispatchInv'
    BY <1>2, QuietDispatchInv DEF Post
  <1>3. CASE PostLink
    <2>1. pc \in {"handlers", "handler"} => body'[msg] = body[msg]
      <3>1. PICK b \in Block : NewMessage(b, req)
        BY <1>3 DEF PostLink
      <3>2. pc \in {"handlers", "handler"} => msg \in used
        BY InUse DEF MessageInv, ListInv, ControlInv
      <3> QED BY <3>1, <3>2 DEF NewMessage, MessageInv, TypeOK
    <2>2. /\ UNCHANGED <<QueueBlock, alive, curHandler, stale, owed, msg, pc>>
          /\ stage' \notin {"sub", "unsub"}
      BY <1>3 DEF PostLink
    <2> QED BY <2>1, <2>2, QuietDispatchInv
  <1>4. CASE PostFail \/ PostAttach \/ PostReturn
    BY <1>4, QuietDispatchInv DEF PostFail, PostAttach, PostReturn
  <1>5. ASSUME NEW m \in Message, InterruptPost(m) PROVE DispatchInv'
    <2>1. pc \in {"handlers", "handler"} => body'[msg] = body[msg]
      <3>1. PICK b \in Block : NewMessage(b, m)
        BY <1>5 DEF InterruptPost
      <3>2. pc \in {"handlers", "handler"} => msg \in used
        BY InUse DEF MessageInv, ListInv, ControlInv
      <3> QED BY <3>1, <3>2 DEF NewMessage, MessageInv, TypeOK
    <2>2. UNCHANGED <<QueueBlock, alive, curHandler, stale, owed, msg, pc, stage, req>>
      BY <1>5 DEF InterruptPost
    <2> QED BY <2>1, <2>2, QuietDispatchInv
  <1>6. CASE LoopCall \/ LoopReturn \/ LoopMask \/ PopFirst \/ PopLast \/ LoopUnmask
    BY <1>6, LoopDispatchInv DEF LoopCall, LoopReturn, LoopMask, PopFirst, PopLast, LoopUnmask
  <1>7. CASE DeleteMessage
    BY <1>7, LoopDispatchInv DEF DeleteMessage
  <1>8. CASE UNCHANGED vars
    BY <1>8, QuietDispatchInv DEF vars
  <1> QED
    BY <1>1, <1>2, <1>3, <1>4, <1>5, <1>6, <1>7, <1>8, AppDispatchInv, WalkDispatchInv,
       SubscribeDispatchInv, UnsubscribeDispatchInv
    DEF Next, Application, Kernel, Interrupt

(***************************************************************************)
(* The inductive invariant of the dispatch, for a careful application:     *)
(* what is still owed is the list from Loop's cursor on.                   *)
(***************************************************************************)
THEOREM DispatchInvariant == ASSUME Careful PROVE Spec => []DispatchInv
  <1>1. Init => DispatchInv
    BY InitDispatchInv
  <1>2. MessageInv /\ DispatchInv /\ [Next]_vars => DispatchInv'
    BY NextDispatchInv
  <1> QED BY <1>1, <1>2, QueueInvariant, PTL DEF Spec

(***************************************************************************)
(* Every handler that stays subscribed is called once for a message, for   *)
(* any number of handlers that subscribe and unsubscribe others meanwhile. *)
(***************************************************************************)
THEOREM DispatchIsExact == ASSUME Careful PROVE Spec => []DispatchExact
  <1>1. MessageInv /\ DispatchInv => DispatchExact
    <2> SUFFICES ASSUME MessageInv, DispatchInv PROVE DispatchExact
      OBVIOUS
    <2>1. ASSUME pc = "handlers", curHandler # NULL PROVE curHandler \in owed
      <3>1. PICK k \in 1..Len(Row) : Row[k] = curHandler /\ owed = From(Row, k)
        BY <2>1, CursorForm DEF DispatchInv
      <3>2. Len(Row) \in Nat
        BY <2>1, RowFacts DEF MessageInv, ContextInv, ContentInv, Row
      <3>3. k \in k..Len(Row)
        BY <3>2
      <3> QED BY <3>1, <3>3 DEF From
    <2> QED BY <2>1 DEF DispatchExact, DispatchInv, CursorInv
  <1> QED BY <1>1, QueueInvariant, DispatchInvariant, PTL

(***************************************************************************)
(* Loop calls no receiver that UnsubscribeAllIDs has detached, wherever    *)
(* Loop was in its list and whatever handlers did since: no row has it.    *)
(***************************************************************************)
THEOREM DetachedAreNotCalled == ASSUME Careful PROVE Spec => []DetachedNotCalled
  <1>1. MessageInv /\ DispatchInv => DetachedNotCalled
    <2> SUFFICES ASSUME MessageInv, DispatchInv, pc = "handlers", curHandler # NULL
                 PROVE  alive[curHandler] # "detached"
      BY DEF DetachedNotCalled
    <2>1. PICK k \in 1..Len(Row) : Row[k] = curHandler
      BY CursorForm DEF DispatchInv
    <2>2. body[msg].msgid \in MsgIds
      BY DEF MessageInv, ContextInv, ContentInv
    <2>3. k \in DOMAIN QueueBlock[body[msg].msgid]
      BY <2>2, RowFacts DEF MessageInv, Row
    <2> QED BY <2>1, <2>2, <2>3 DEF DispatchInv, CallInv, Row
  <1> QED BY <1>1, QueueInvariant, DispatchInvariant, PTL
=============================================================================
