------------------------- MODULE SymbolServerProofs -------------------------
(***************************************************************************)
(* For any number of threads and any set of strings: the invariants of     *)
(* SymbolServer, and the proof that it implements Interner.                *)
(***************************************************************************)
EXTENDS SymbolServer, TLAPS

Answers == Strings \cup Nat \cup (BOOLEAN \X Nat) \cup {NoAnswer}

CallType ==
    call \in [Callers -> [op : Ops \cup {"none"}, arg : Strings \cup Nat, answer : Answers]]

(* The number n stands for the string s.                                   *)
Names(n, s) == n \in Nat /\ n < Len(m_strings) /\ m_strings[n + 1] = s

(* What check_internalization may answer about s: if it says that it has   *)
(* found s, the number stands for s.                                       *)
Found(answer, s) == answer \in BOOLEAN \X Nat /\ (answer[1] => Names(answer[2], s))

(* A thread's location tells what it is doing and what it already knows.   *)
PcInv ==
    \A t \in Callers :
        /\ pc[t] = "idle" <=> call[t].op = "none"
        /\ pc[t] \in {"internalize", "lock", "push", "insert"} =>
              call[t].op = "internalize" /\ call[t].arg \in Strings
        /\ pc[t] = "check" => call[t].op = "check" /\ call[t].arg \in Strings
        /\ pc[t] = "resolve" =>
              /\ call[t].op = "resolve"
              /\ call[t].arg \in Nat
              /\ call[t].arg < Len(m_strings)
        /\ pc[t] \in {"internalize", "lock", "push", "check", "resolve"} =>
              call[t].answer = NoAnswer
        /\ pc[t] \in {"insert", "return"} => call[t].answer # NoAnswer
        /\ pc[t] = "return" /\ call[t].op = "internalize" =>
              call[t].arg \in Strings /\ Names(call[t].answer, call[t].arg)
        /\ pc[t] = "return" /\ call[t].op = "check" =>
              call[t].arg \in Strings /\ Found(call[t].answer, call[t].arg)

(* The writer, and what it has found and done so far.                      *)
WriterInv ==
    \A t \in Callers :
        /\ pc[t] \in {"push", "insert"} <=> m_mutex = t
        /\ pc[t] = "push" => ~Known(call[t].arg)
        /\ pc[t] = "insert" => /\ Names(call[t].answer, call[t].arg)
                               /\ call[t].answer + 1 = Len(m_strings)

(* The vector holds no string twice, the index only what the vector holds, *)
(* and only the string a writer has just appended may be missing from it.  *)
TableInv ==
    /\ Len(m_strings) > 0 /\ m_strings[1] = Empty
    /\ \A i, j \in 1 .. Len(m_strings) : m_strings[i] = m_strings[j] => i = j
    /\ \A s \in DOMAIN m_index : Names(m_index[s], s)
    /\ \A i \in 1 .. Len(m_strings) :
          \/ Known(m_strings[i])
          \/ i = Len(m_strings) /\ \E t \in Callers : pc[t] = "insert"

IssuedInv == \A symbol \in issued : /\ symbol \in Strings \X Nat
                                    /\ Names(symbol[2], symbol[1])

IInv == TypeOK /\ CallType /\ PcInv /\ WriterInv /\ TableInv /\ IssuedInv

USE StringsAssumption, NobodyAssumption, NoAnswerAssumption
USE DEF Goto, Answer, Known, None, Ops, Answers, Names, Found

LEMMA InitIInv == Init => IInv
<1> SUFFICES ASSUME Init PROVE IInv
  OBVIOUS
<1>1. DOMAIN m_index = {Empty} /\ m_index[Empty] = 0
  BY DEF Init
<1>2. TypeOK /\ CallType
  BY <1>1 DEF Init, TypeOK, CallType
<1>3. PcInv /\ WriterInv
  BY DEF Init, PcInv, WriterInv
<1>4. TableInv /\ IssuedInv
  BY <1>1 DEF Init, TableInv, IssuedInv
<1> QED BY <1>2, <1>3, <1>4 DEF IInv

LEMMA BeginKeepsIInv ==
    ASSUME IInv, NEW t \in Callers, NEW op \in Ops, NEW arg \in Strings \cup Nat,
           op \in {"internalize", "check"} => arg \in Strings,
           op = "resolve" => arg \in Nat /\ arg < Len(m_strings),
           Begin(t, op, arg)
    PROVE  IInv'
<1>1. TypeOK' /\ CallType'
  BY DEF IInv, TypeOK, CallType, Begin
<1>2. PcInv'
  BY DEF IInv, TypeOK, CallType, PcInv, Begin
<1>3. WriterInv'
  BY DEF IInv, TypeOK, CallType, WriterInv, Begin
<1>4. TableInv' /\ IssuedInv'
  BY DEF IInv, TypeOK, TableInv, IssuedInv, Begin
<1> QED BY <1>1, <1>2, <1>3, <1>4 DEF IInv

(* What a step that answers a call leaves of the others.                   *)
LEMMA AnswerEffect ==
    ASSUME CallType, NEW t \in Callers, NEW answer \in Answers, Answer(t, answer)
    PROVE  /\ CallType'
           /\ call'[t].op = call[t].op
           /\ call'[t].arg = call[t].arg
           /\ call'[t].answer = answer
           /\ \A u \in Callers : u # t => call'[u] = call[u]
<1>1. call' = [call EXCEPT ![t] = [call[t] EXCEPT !.answer = answer]]
  OBVIOUS
<1>2. call[t] \in [op : Ops \cup {"none"}, arg : Strings \cup Nat, answer : Answers]
  BY DEF CallType
<1>3. [call[t] EXCEPT !.answer = answer] \in
         [op : Ops \cup {"none"}, arg : Strings \cup Nat, answer : Answers]
  BY <1>2
<1>4. CallType'
  BY <1>1, <1>3 DEF CallType
<1> QED BY <1>1, <1>2, <1>4 DEF CallType

(* A step that answers from the table: nothing but the thread moves.       *)
LEMMA AnswerKeepsIInv ==
    ASSUME IInv, NEW t \in Callers, NEW answer \in Answers \ {NoAnswer},
           pc[t] \in {"internalize", "lock", "check", "resolve"},
           call[t].op = "internalize" => Names(answer, call[t].arg),
           call[t].op = "check" => Found(answer, call[t].arg),
           Answer(t, answer), Goto(t, "return"),
           UNCHANGED <<m_strings, m_index, m_mutex, issued>>
    PROVE  IInv'
<1>1. /\ CallType'
      /\ call'[t].op = call[t].op
      /\ call'[t].arg = call[t].arg
      /\ call'[t].answer = answer
      /\ \A u \in Callers : u # t => call'[u] = call[u]
  BY AnswerEffect DEF IInv
<1>2. \A u \in Callers : pc'[u] = IF u = t THEN "return" ELSE pc[u]
  BY DEF IInv, TypeOK
<1>3. TypeOK'
  <2>1. DOMAIN call' = Callers
    BY <1>1 DEF CallType
  <2> QED BY <2>1 DEF IInv, TypeOK
<1>4. PcInv'
  BY <1>1, <1>2 DEF IInv, PcInv
<1>5. WriterInv'
  BY <1>1, <1>2 DEF IInv, WriterInv
<1>6. TableInv'
  BY <1>2 DEF IInv, TableInv
<1>7. IssuedInv'
  BY DEF IInv, IssuedInv
<1> QED BY <1>1, <1>3, <1>4, <1>5, <1>6, <1>7 DEF IInv

LEMMA EmptyShortcutKeepsIInv == ASSUME IInv, NEW t \in Callers, EmptyShortcut(t) PROVE IInv'
<1> DEFINE answer == IF pc[t] = "check" THEN <<TRUE, 0>> ELSE 0
<1>1. answer \in Answers \ {NoAnswer}
  <2>1. <<TRUE, 0>> \in BOOLEAN \X Nat
    OBVIOUS
  <2>2. CASE pc[t] = "check"
    BY <2>1, <2>2
  <2>3. CASE pc[t] # "check"
    BY <2>3
  <2> QED BY <2>2, <2>3
<1>2. Names(0, Empty)
  BY DEF IInv, TypeOK, TableInv
<1>3. /\ call[t].op = "internalize" => Names(answer, call[t].arg)
      /\ call[t].op = "check" => Found(answer, call[t].arg)
  BY <1>2 DEF IInv, PcInv, EmptyShortcut
<1> QED BY <1>1, <1>3, AnswerKeepsIInv DEF EmptyShortcut

LEMMA LookupKeepsIInv == ASSUME IInv, NEW t \in Callers, Lookup(t) PROVE IInv'
<1>1. CASE Known(call[t].arg)
  <2> DEFINE answer == m_index[call[t].arg]
  <2>1. answer \in Answers \ {NoAnswer} /\ Names(answer, call[t].arg)
    BY <1>1 DEF IInv, TypeOK, TableInv
  <2>2. call[t].op = "internalize" /\ pc[t] = "internalize"
    BY DEF Lookup, IInv, PcInv
  <2>3. /\ Answer(t, answer) /\ Goto(t, "return")
        /\ UNCHANGED <<m_strings, m_index, m_mutex, issued>>
    BY <1>1 DEF Lookup
  <2> HIDE DEF answer
  <2> QED BY <2>1, <2>2, <2>3, AnswerKeepsIInv
<1>2. CASE ~Known(call[t].arg)
  <2>1. \A u \in Callers : pc'[u] = IF u = t THEN "lock" ELSE pc[u]
    BY <1>2 DEF Lookup, IInv, TypeOK
  <2>2. TypeOK' /\ CallType'
    BY <1>2 DEF Lookup, IInv, TypeOK, CallType
  <2>3. PcInv'
    <3> SUFFICES ASSUME NEW u \in Callers PROVE PcInv!(u)'
      BY DEF PcInv
    <3>1. CASE u = t
      BY <1>2, <2>1, <3>1 DEF Lookup, IInv, PcInv
    <3>2. CASE u # t
      BY <1>2, <2>1, <3>2 DEF Lookup, IInv, PcInv
    <3> QED BY <3>1, <3>2
  <2>4. WriterInv'
    BY <1>2, <2>1 DEF Lookup, IInv, PcInv, WriterInv
  <2>5. TableInv' /\ IssuedInv'
    BY <1>2, <2>1 DEF Lookup, IInv, TableInv, IssuedInv
  <2> QED BY <2>2, <2>3, <2>4, <2>5 DEF IInv
<1> QED BY <1>1, <1>2

LEMMA RecheckKeepsIInv == ASSUME IInv, NEW t \in Callers, Recheck(t) PROVE IInv'
<1>1. CASE Known(call[t].arg)
  <2> DEFINE answer == m_index[call[t].arg]
  <2>1. answer \in Answers \ {NoAnswer} /\ Names(answer, call[t].arg)
    BY <1>1 DEF IInv, TypeOK, TableInv
  <2>2. call[t].op = "internalize" /\ pc[t] = "lock"
    BY DEF Recheck, IInv, PcInv
  <2>3. /\ Answer(t, answer) /\ Goto(t, "return")
        /\ UNCHANGED <<m_strings, m_index, m_mutex, issued>>
    BY <1>1 DEF Recheck
  <2> HIDE DEF answer
  <2> QED BY <2>1, <2>2, <2>3, AnswerKeepsIInv
<1>2. CASE ~Known(call[t].arg)
  <2>1. \A u \in Callers : pc'[u] = IF u = t THEN "push" ELSE pc[u]
    BY <1>2 DEF Recheck, IInv, TypeOK
  <2>2. TypeOK' /\ CallType'
    BY <1>2 DEF Recheck, IInv, TypeOK, CallType
  <2>3. PcInv'
    <3> SUFFICES ASSUME NEW u \in Callers PROVE PcInv!(u)'
      BY DEF PcInv
    <3>1. CASE u = t
      BY <1>2, <2>1, <3>1 DEF Recheck, IInv, PcInv
    <3>2. CASE u # t
      BY <1>2, <2>1, <3>2 DEF Recheck, IInv, PcInv
    <3> QED BY <3>1, <3>2
  <2>4. WriterInv'
    BY <1>2, <2>1 DEF Recheck, LockFree, IInv, WriterInv
  <2>5. TableInv' /\ IssuedInv'
    BY <1>2, <2>1 DEF Recheck, IInv, TableInv, IssuedInv
  <2> QED BY <2>2, <2>3, <2>4, <2>5 DEF IInv
<1> QED BY <1>1, <1>2

(* Nobody is half-way through an insertion when a writer is about to push. *)
LEMMA PushKeepsIInv == ASSUME IInv, NEW t \in Callers, Push(t) PROVE IInv'
<1> DEFINE n == Len(m_strings)
           s == call[t].arg
<1>1. n \in Nat \ {0} /\ s \in Strings /\ ~Known(s) /\ m_mutex = t /\ m_strings \in Seq(Strings)
  BY DEF Push, IInv, TypeOK, PcInv, WriterInv, TableInv
<1>2. /\ m_strings' \in Seq(Strings)
      /\ Len(m_strings') = n + 1
      /\ m_strings'[n + 1] = s
      /\ \A i \in 1 .. n : m_strings'[i] = m_strings[i]
  BY <1>1 DEF Push
<1>3. /\ CallType'
      /\ call'[t].op = call[t].op
      /\ call'[t].arg = s
      /\ call'[t].answer = n
      /\ \A u \in Callers : u # t => call'[u] = call[u]
  BY <1>1, AnswerEffect DEF Push, NewIndex, IInv
<1>4. \A u \in Callers : pc'[u] = IF u = t THEN "insert" ELSE pc[u]
  BY DEF Push, IInv, TypeOK
<1>5. \A u \in Callers : u # t => pc[u] \notin {"push", "insert"}
  BY <1>1 DEF IInv, WriterInv
<1>6. ASSUME NEW k, NEW r, Names(k, r)
      PROVE  k \in Nat /\ k < Len(m_strings') /\ m_strings'[k + 1] = r
  <2>1. k + 1 \in 1 .. n
    BY <1>1, <1>6
  <2> QED BY <1>1, <1>2, <1>6, <2>1
<1>7. TypeOK'
  BY <1>2, <1>3 DEF Push, IInv, TypeOK, CallType
<1>8. /\ call'[t].answer \in Nat
      /\ call'[t].answer < Len(m_strings')
      /\ m_strings'[call'[t].answer + 1] = call'[t].arg
  BY <1>1, <1>2, <1>3
<1>9. PcInv'
  <2> SUFFICES ASSUME NEW u \in Callers PROVE PcInv!(u)'
    BY DEF PcInv
  <2>1. CASE u = t
    BY <1>1, <1>3, <1>4, <2>1 DEF IInv, PcInv, Push
  <2>2. CASE u # t
    <3>1. pc'[u] = pc[u] /\ call'[u] = call[u]
      BY <1>3, <1>4, <2>2
    <3>2. ASSUME NEW answer, NEW r, Found(answer, r)
          PROVE  /\ answer \in BOOLEAN \X Nat
                 /\ answer[1] => /\ answer[2] \in Nat
                                 /\ answer[2] < Len(m_strings')
                                 /\ m_strings'[answer[2] + 1] = r
      BY <1>6, <3>2
    <3>3. call[u].arg < Len(m_strings) => call[u].arg < Len(m_strings') \/ call[u].arg \notin Nat
      BY <1>1, <1>2
    <3> QED BY <1>6, <3>1, <3>2, <3>3 DEF IInv, PcInv
  <2> QED BY <2>1, <2>2
<1>10. WriterInv'
  <2> SUFFICES ASSUME NEW u \in Callers PROVE WriterInv!(u)'
    BY DEF WriterInv
  <2>1. CASE u = t
    BY <1>1, <1>2, <1>3, <1>4, <1>8, <2>1 DEF Push
  <2>2. CASE u # t
    BY <1>1, <1>4, <1>5, <2>2 DEF Push, IInv, WriterInv
  <2> QED BY <2>1, <2>2
<1>11. TableInv'
  <2>1. m_strings'[1] = Empty /\ Len(m_strings') > 0
    BY <1>1, <1>2 DEF IInv, TableInv
  <2>2. \A i \in 1 .. n : m_strings[i] # s /\ Known(m_strings[i])
    BY <1>1, <1>5 DEF IInv, TableInv, Push
  <2>3. \A i, j \in 1 .. Len(m_strings') : m_strings'[i] = m_strings'[j] => i = j
    BY <1>1, <1>2, <2>2 DEF IInv, TableInv
  <2>4. (\A r \in DOMAIN m_index : Names(m_index[r], r))'
    <3>1. UNCHANGED m_index /\ \A r \in DOMAIN m_index : Names(m_index[r], r)
      BY DEF Push, IInv, TableInv
    <3> QED BY <1>6, <3>1
  <2>5. \A i \in 1 .. Len(m_strings') :
           \/ m_strings'[i] \in DOMAIN m_index'
           \/ i = Len(m_strings') /\ \E u \in Callers : pc'[u] = "insert"
    <3> SUFFICES ASSUME NEW i \in 1 .. Len(m_strings')
                 PROVE  \/ m_strings'[i] \in DOMAIN m_index'
                        \/ i = Len(m_strings') /\ \E u \in Callers : pc'[u] = "insert"
      OBVIOUS
    <3>1. CASE i \in 1 .. n
      BY <1>2, <2>2, <3>1 DEF Push
    <3>2. CASE i = n + 1
      BY <1>2, <1>4, <3>2
    <3> QED BY <1>1, <1>2, <3>1, <3>2
  <2> QED BY <2>1, <2>3, <2>4, <2>5 DEF TableInv
<1>12. IssuedInv'
  BY <1>6 DEF Push, IInv, IssuedInv
<1> QED BY <1>3, <1>7, <1>9, <1>10, <1>11, <1>12 DEF IInv

LEMMA InsertKeepsIInv == ASSUME IInv, NEW t \in Callers, Insert(t) PROVE IInv'
<1>1. /\ call[t].arg \in Strings /\ call[t].op = "internalize"
      /\ Names(call[t].answer, call[t].arg) /\ call[t].answer + 1 = Len(m_strings)
      /\ m_mutex = t
  BY DEF Insert, IInv, PcInv, WriterInv
<1>2. \A u \in Callers : pc'[u] = IF u = t THEN "return" ELSE pc[u]
  BY DEF Insert, IInv, TypeOK
<1>3. /\ DOMAIN m_index' = DOMAIN m_index \cup {call[t].arg}
      /\ m_index'[call[t].arg] = call[t].answer
      /\ \A s \in DOMAIN m_index : s # call[t].arg => m_index'[s] = m_index[s]
  BY DEF Insert
<1>4. \A u \in Callers : u # t => pc[u] \notin {"push", "insert"}
  BY <1>1 DEF IInv, WriterInv
<1>5. TypeOK' /\ CallType'
  BY <1>1, <1>3 DEF Insert, IInv, TypeOK, CallType
<1>6. PcInv'
  BY <1>1, <1>2 DEF Insert, IInv, PcInv
<1>7. WriterInv'
  BY <1>1, <1>2, <1>4 DEF Insert, IInv, WriterInv
<1>8. TableInv'
  <2>1. (\A s \in DOMAIN m_index : Names(m_index[s], s))'
    BY <1>1, <1>3 DEF Insert, IInv, TableInv
  <2>2. \A i \in 1 .. Len(m_strings) : m_strings[i] \in DOMAIN m_index'
    BY <1>1, <1>3 DEF Insert, IInv, TypeOK, TableInv
  <2>3. m_strings' = m_strings
    BY DEF Insert
  <2>4. /\ Len(m_strings) > 0 /\ m_strings[1] = Empty
        /\ \A i, j \in 1 .. Len(m_strings) : m_strings[i] = m_strings[j] => i = j
    BY DEF IInv, TableInv
  <2>5. (\A i \in 1 .. Len(m_strings) :
           \/ Known(m_strings[i])
           \/ i = Len(m_strings) /\ \E u \in Callers : pc[u] = "insert")'
    BY <2>2, <2>3
  <2> QED BY <2>1, <2>3, <2>4, <2>5 DEF TableInv
<1>9. IssuedInv'
  BY DEF Insert, IInv, IssuedInv
<1> QED BY <1>5, <1>6, <1>7, <1>8, <1>9 DEF IInv

LEMMA CheckKeepsIInv == ASSUME IInv, NEW t \in Callers, Check(t) PROVE IInv'
<1> DEFINE answer == IF Known(call[t].arg) THEN <<TRUE, m_index[call[t].arg]>>
                                           ELSE <<FALSE, 0>>
<1>1. answer \in Answers \ {NoAnswer}
  <2>1. Known(call[t].arg) => <<TRUE, m_index[call[t].arg]>> \in BOOLEAN \X Nat
    BY DEF IInv, TypeOK
  <2>2. <<FALSE, 0>> \in BOOLEAN \X Nat
    OBVIOUS
  <2> QED BY <2>1, <2>2
<1>2. call[t].op = "check" /\ pc[t] = "check"
  BY DEF Check, IInv, PcInv
<1>3. Found(answer, call[t].arg)
  BY DEF IInv, TypeOK, TableInv
<1>4. Answer(t, answer) /\ Goto(t, "return") /\ UNCHANGED <<m_strings, m_index, m_mutex, issued>>
  BY DEF Check
<1> HIDE DEF answer
<1> QED BY <1>1, <1>2, <1>3, <1>4, AnswerKeepsIInv

LEMMA ResolveKeepsIInv == ASSUME IInv, NEW t \in Callers, Resolve(t) PROVE IInv'
<1> DEFINE answer == m_strings[call[t].arg + 1]
<1>1. call[t].arg + 1 \in 1 .. Len(m_strings) /\ call[t].op = "resolve"
  BY DEF Resolve, IInv, TypeOK, PcInv
<1>2. answer \in Answers \ {NoAnswer}
  BY <1>1 DEF IInv, TypeOK
<1> QED BY <1>1, <1>2, AnswerKeepsIInv DEF Resolve

LEMMA ReturnKeepsIInv == ASSUME IInv, NEW t \in Callers, Return(t) PROVE IInv'
<1>1. \A u \in Callers : pc'[u] = IF u = t THEN "idle" ELSE pc[u]
  BY DEF Return, IInv, TypeOK
<1>2. ASSUME NEW symbol \in Handed(call[t])
      PROVE  symbol \in Strings \X Nat /\ Names(symbol[2], symbol[1])
  <2>1. call[t].op \in Ops /\ pc[t] = "return"
    BY DEF Return, IInv, CallType, PcInv
  <2>2. CASE call[t].op = "internalize"
    <3>1. symbol = <<call[t].arg, call[t].answer>>
      BY <2>2 DEF Handed
    <3> QED BY <2>1, <2>2, <3>1 DEF IInv, PcInv
  <2>3. CASE call[t].op = "check"
    <3>1. call[t].arg \in Strings /\ Found(call[t].answer, call[t].arg)
      BY <2>1, <2>3 DEF IInv, PcInv
    <3>2. call[t].answer[1] \in BOOLEAN
      BY <3>1
    <3>3. call[t].answer[1] /\ symbol = <<call[t].arg, call[t].answer[2]>>
      BY <2>3, <3>2 DEF Handed
    <3> QED BY <3>1, <3>3
  <2>4. CASE call[t].op = "resolve"
    BY <2>4 DEF Handed
  <2> QED BY <2>1, <2>2, <2>3, <2>4
<1>3. TypeOK' /\ CallType'
  BY <1>2 DEF Return, IInv, TypeOK, CallType
<1>4. PcInv'
  BY <1>1 DEF Return, IInv, TypeOK, CallType, PcInv
<1>5. WriterInv'
  BY <1>1 DEF Return, IInv, TypeOK, CallType, WriterInv
<1>6. TableInv' /\ IssuedInv'
  BY <1>1, <1>2 DEF Return, IInv, TypeOK, PcInv, TableInv, IssuedInv
<1> QED BY <1>3, <1>4, <1>5, <1>6 DEF IInv

LEMMA NextKeepsIInv == IInv /\ [Next]_vars => IInv'
<1> SUFFICES ASSUME IInv, [Next]_vars PROVE IInv'
  OBVIOUS
<1>1. CASE UNCHANGED vars
  BY <1>1 DEF vars, IInv, TypeOK, CallType, PcInv, WriterInv, TableInv, IssuedInv
<1>2. ASSUME NEW t \in Callers, NEW s \in Strings, NEW op \in {"internalize", "check"},
             Begin(t, op, s)
      PROVE  IInv'
  BY <1>2, BeginKeepsIInv
<1>3. ASSUME NEW t \in Callers, NEW symbol \in issued, Begin(t, "resolve", symbol[2])
      PROVE  IInv'
  <2>1. symbol[2] \in Nat /\ symbol[2] < Len(m_strings)
    BY DEF IInv, IssuedInv
  <2> QED BY <1>3, <2>1, BeginKeepsIInv
<1>4. ASSUME NEW t \in Callers, Step(t) PROVE IInv'
  BY <1>4, EmptyShortcutKeepsIInv, LookupKeepsIInv, RecheckKeepsIInv, PushKeepsIInv,
     InsertKeepsIInv, CheckKeepsIInv, ResolveKeepsIInv, ReturnKeepsIInv DEF Step
<1> QED BY <1>1, <1>2, <1>3, <1>4 DEF Next

THEOREM Inductive == Spec => []IInv
BY InitIInv, NextKeepsIInv, PTL DEF Spec

(* The type invariant, for any set of strings.                             *)
THEOREM TypeCorrect == Spec => []TypeOK
<1>1. IInv => TypeOK
  BY DEF IInv
<1> QED BY Inductive, <1>1, PTL

(* Comparing two Symbols is comparing their strings.                       *)
THEOREM EqualityIsStringEquality == Spec => []SymbolEqualityIsStringEquality
<1>1. IInv => SymbolEqualityIsStringEquality
  <2> SUFFICES ASSUME IInv PROVE SymbolEqualityIsStringEquality
    OBVIOUS
  <2>1. \A a \in issued : Names(a[2], a[1])
    BY DEF IInv, IssuedInv
  <2>2. ASSUME NEW a \in issued, NEW b \in issued PROVE a[1] = b[1] <=> a[2] = b[2]
    <3>1. a[2] + 1 \in 1 .. Len(m_strings) /\ b[2] + 1 \in 1 .. Len(m_strings)
      BY <2>1 DEF IInv, TypeOK
    <3>2. a[1] = b[1] => a[2] + 1 = b[2] + 1
      <4>1. m_strings[a[2] + 1] = a[1] /\ m_strings[b[2] + 1] = b[1]
        BY <2>1
      <4>2. \A i, j \in 1 .. Len(m_strings) : m_strings[i] = m_strings[j] => i = j
        BY DEF IInv, TableInv
      <4> DEFINE i == a[2] + 1
                 j == b[2] + 1
      <4>3. i \in 1 .. Len(m_strings) /\ j \in 1 .. Len(m_strings)
        BY <3>1
      <4>4. a[1] = b[1] => m_strings[i] = m_strings[j]
        BY <4>1
      <4> HIDE DEF i, j
      <4>5. a[1] = b[1] => i = j
        BY <4>2, <4>3, <4>4
      <4> QED BY <4>5 DEF i, j
    <3> QED BY <2>1, <3>2
  <2> QED BY <2>1, <2>2 DEF SymbolEqualityIsStringEquality
<1> QED BY Inductive, <1>1, PTL

(* Outside a writer, index and vector are inverse to each other.           *)
THEOREM IndexIsInverse == Spec => []IndexMatchesStrings
<1>1. IInv => IndexMatchesStrings
  <2> SUFFICES ASSUME IInv, m_mutex = Nobody PROVE IndexMatchesStrings
    BY DEF IndexMatchesStrings
  <2>1. \A s \in DOMAIN m_index : Names(m_index[s], s)
    BY DEF IInv, TableInv
  <2>2. ASSUME NEW i \in 1 .. Len(m_strings)
        PROVE  m_strings[i] \in DOMAIN m_index /\ m_index[m_strings[i]] = i - 1
    <3>1. m_strings[i] \in DOMAIN m_index
      BY DEF IInv, WriterInv, TableInv
    <3>2. Names(m_index[m_strings[i]], m_strings[i])
      BY <2>1, <3>1
    <3>3. m_index[m_strings[i]] + 1 \in 1 .. Len(m_strings)
      BY <3>2 DEF IInv, TypeOK
    <3> QED BY <3>1, <3>2, <3>3 DEF IInv, TableInv
  <2> QED BY <2>1, <2>2 DEF IndexMatchesStrings
<1> QED BY Inductive, <1>1, PTL

(* resolve's assertion never fails.                                        *)
THEOREM ResolveIsSafe == Spec => []ResolveAssertion
<1>1. IInv => ResolveAssertion
  BY DEF IInv, PcInv, ResolveAssertion
<1> QED BY Inductive, <1>1, PTL

-----------------------------------------------------------------------------
(* The refinement: the vector is the interner's list, and a call takes     *)
(* effect when its answer is known, at the push for a new string.          *)

LEMMA InitImplements == Init => I!Init
BY DEF Init, I!Init, I!None

(* A string's number in the index is its place in the interner's list.     *)
LEMMA KnownIsListed ==
    ASSUME IInv, NEW s \in Strings, Known(s)
    PROVE  /\ m_index[s] + 1 \in 1 .. Len(m_strings)
           /\ m_strings[m_index[s] + 1] = s
           /\ m_index[s] = (m_index[s] + 1) - 1
BY DEF IInv, TypeOK, TableInv

(* With no insertion under way, what the index misses the list misses too. *)
LEMMA UnknownIsUnlisted ==
    ASSUME IInv, NEW s \in Strings, ~Known(s), \A u \in Callers : pc[u] # "insert"
    PROVE  \A i \in 1 .. Len(m_strings) : m_strings[i] # s
BY DEF IInv, TypeOK, TableInv

LEMMA StepImplements ==
    ASSUME IInv, NEW t \in Callers, Step(t)
    PROVE  I!Next \/ UNCHANGED I!vars
<1> USE DEF I!Answer, I!Unanswered, I!None, I!vars
<1>1. ASSUME EmptyShortcut(t) PROVE I!Internalize(t) \/ I!Check(t)
  <2>1. 1 \in 1 .. Len(m_strings) /\ m_strings[1] = Empty /\ 0 = 1 - 1
    BY DEF IInv, TypeOK, TableInv
  <2>2. CASE pc[t] = "check"
    BY <1>1, <2>1, <2>2 DEF EmptyShortcut, I!Check, IInv, PcInv
  <2>3. CASE pc[t] = "internalize"
    BY <1>1, <2>1, <2>3 DEF EmptyShortcut, I!Internalize, IInv, PcInv
  <2> QED BY <1>1, <2>2, <2>3 DEF EmptyShortcut
<1>2. ASSUME Lookup(t) PROVE I!Internalize(t) \/ UNCHANGED I!vars
  <2>1. CASE Known(call[t].arg)
    <3>1. call[t].arg \in Strings /\ I!Unanswered(t, "internalize")
      BY <1>2 DEF Lookup, IInv, PcInv
    <3> QED BY <1>2, <2>1, <3>1, KnownIsListed DEF Lookup, I!Internalize
  <2>2. CASE ~Known(call[t].arg)
    BY <1>2, <2>2 DEF Lookup
  <2> QED BY <2>1, <2>2
<1>3. ASSUME Recheck(t) PROVE I!Internalize(t) \/ UNCHANGED I!vars
  <2>1. CASE Known(call[t].arg)
    <3>1. call[t].arg \in Strings /\ I!Unanswered(t, "internalize")
      BY <1>3 DEF Recheck, IInv, PcInv
    <3> QED BY <1>3, <2>1, <3>1, KnownIsListed DEF Recheck, I!Internalize
  <2>2. CASE ~Known(call[t].arg)
    BY <1>3, <2>2 DEF Recheck
  <2> QED BY <2>1, <2>2
<1>4. ASSUME Push(t) PROVE I!Internalize(t)
  <2>1. call[t].arg \in Strings /\ I!Unanswered(t, "internalize") /\ ~Known(call[t].arg)
    BY <1>4 DEF Push, IInv, PcInv, WriterInv
  <2>2. \A u \in Callers : pc[u] # "insert"
    BY <1>4 DEF Push, IInv, WriterInv
  <2>3. \A i \in 1 .. Len(m_strings) : m_strings[i] # call[t].arg
    BY <2>1, <2>2, UnknownIsUnlisted
  <2> QED BY <1>4, <2>1, <2>3 DEF Push, NewIndex, I!Internalize
<1>5. ASSUME Insert(t) PROVE UNCHANGED I!vars
  BY <1>5 DEF Insert
<1>6. ASSUME Check(t) PROVE I!Check(t)
  <2>1. call[t].arg \in Strings /\ I!Unanswered(t, "check")
    BY <1>6 DEF Check, IInv, PcInv
  <2>2. CASE Known(call[t].arg)
    BY <1>6, <2>1, <2>2, KnownIsListed DEF Check, I!Check
  <2>3. CASE ~Known(call[t].arg)
    <3>1. \A u \in Callers : pc[u] # "insert"
      BY <1>6 DEF Check, LockFree, IInv, WriterInv
    <3> QED BY <1>6, <2>1, <2>3, <3>1, UnknownIsUnlisted DEF Check, I!Check
  <2> QED BY <2>2, <2>3
<1>7. ASSUME Resolve(t) PROVE I!Resolve(t)
  BY <1>7 DEF Resolve, I!Resolve, IInv, PcInv
<1>8. ASSUME Return(t) PROVE I!Return(t)
  BY <1>8 DEF Return, I!Return, IInv, PcInv
<1> QED BY <1>1, <1>2, <1>3, <1>4, <1>5, <1>6, <1>7, <1>8 DEF Step, I!Next

LEMMA BeginImplements ==
    ASSUME IInv, NEW t \in Callers,
           \/ \E s \in Strings : Begin(t, "internalize", s) \/ Begin(t, "check", s)
           \/ \E symbol \in issued : Begin(t, "resolve", symbol[2])
    PROVE  I!Next
<1>1. ASSUME NEW s \in Strings, Begin(t, "internalize", s) PROVE I!Begin(t, "internalize", s)
  BY <1>1 DEF Begin, I!Begin, IInv, PcInv
<1>2. ASSUME NEW s \in Strings, Begin(t, "check", s) PROVE I!Begin(t, "check", s)
  BY <1>2 DEF Begin, I!Begin, IInv, PcInv
<1>3. ASSUME NEW symbol \in issued, Begin(t, "resolve", symbol[2])
      PROVE  /\ symbol[2] \in 0 .. Len(m_strings) - 1
             /\ I!Begin(t, "resolve", symbol[2])
  <2>1. symbol[2] \in 0 .. Len(m_strings) - 1
    BY DEF IInv, TypeOK, IssuedInv
  <2> QED BY <1>3, <2>1 DEF Begin, I!Begin, IInv, PcInv
<1> QED BY <1>1, <1>2, <1>3 DEF I!Next

(* SymbolServer is an atomic interner: whatever the threads do, each call  *)
(* takes effect at one moment.                                             *)
THEOREM ImplementsInterner == Spec => Implements
<1>1. IInv /\ [Next]_vars => [I!Next]_(I!vars)
  <2> SUFFICES ASSUME IInv, [Next]_vars PROVE I!Next \/ UNCHANGED I!vars
    OBVIOUS
  <2>1. CASE UNCHANGED vars
    BY <2>1 DEF vars, I!vars
  <2>2. CASE Next
    BY <2>2, StepImplements, BeginImplements DEF Next
  <2> QED BY <2>1, <2>2
<1> QED BY InitImplements, Inductive, <1>1, PTL DEF Spec, I!Spec, Implements
=============================================================================
