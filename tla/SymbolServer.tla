---------------------------- MODULE SymbolServer ----------------------------
(***************************************************************************)
(* fcgiserver::SymbolServer (src/lib/symbol_server.cpp), the process-wide  *)
(* table behind Symbol: a vector of strings, an index from string to       *)
(* position and one shared_mutex.  internalize looks a string up under the *)
(* shared lock, lets go of it, and looks again under the exclusive lock    *)
(* before it inserts.  A section under the shared lock is one step; a      *)
(* section under the exclusive lock is one step for each container it      *)
(* changes, during which m_mutex names the owner.                          *)
(***************************************************************************)
EXTENDS Naturals, Sequences

CONSTANTS
    Callers,   \* the threads that use symbols
    Strings,   \* the strings they intern, the empty string among them
    Empty,     \* the empty string
    NoAnswer,  \* a call that has not been answered yet
    Nobody     \* the owner of a mutex that no writer holds

ASSUME StringsAssumption == Empty \in Strings
ASSUME NobodyAssumption == Nobody \notin Callers
ASSUME NoAnswerAssumption == NoAnswer \notin Strings \cup Nat \cup (BOOLEAN \X Nat)

VARIABLES
    m_strings,  \* SymbolServer::m_strings, position 1 is symbol 0
    m_index,    \* SymbolServer::m_index, a function on the strings it holds
    m_mutex,    \* who holds m_mutex exclusively
    pc,         \* where each thread is
    call,       \* the call it is in: operation, argument, answer
    issued      \* history: the symbols a thread has got for its string

vars == <<m_strings, m_index, m_mutex, pc, call, issued>>

None == [op |-> "none", arg |-> Empty, answer |-> NoAnswer]

(* insert_defaults: the empty string is symbol 0.                          *)
Init ==
    /\ m_strings = <<Empty>>
    /\ m_index = [s \in {Empty} |-> 0]
    /\ m_mutex = Nobody
    /\ pc = [t \in Callers |-> "idle"]
    /\ call = [t \in Callers |-> None]
    /\ issued = {<<Empty, 0>>}

Goto(t, location) == pc' = [pc EXCEPT ![t] = location]

Answer(t, answer) == call' = [call EXCEPT ![t].answer = answer]

(* Symbols travel between threads: any thread may resolve any symbol that  *)
(* some call has returned.                                                 *)
Begin(t, op, arg) ==
    /\ pc[t] = "idle"
    /\ Goto(t, op)
    /\ call' = [call EXCEPT ![t] = [op |-> op, arg |-> arg, answer |-> NoAnswer]]
    /\ UNCHANGED <<m_strings, m_index, m_mutex, issued>>

(* The empty string is answered without the lock.                          *)
ShortcutWithoutValue(t) ==
    /\ pc[t] \in {"internalize", "check"}
    /\ call[t].arg = Empty
    /\ Goto(t, "return")
    /\ UNCHANGED <<m_strings, m_index, m_mutex, call, issued>>

EmptyShortcut(t) ==
    /\ pc[t] \in {"internalize", "check"}
    /\ call[t].arg = Empty
    /\ Answer(t, IF pc[t] = "check" THEN <<TRUE, 0>> ELSE 0)
    /\ Goto(t, "return")
    /\ UNCHANGED <<m_strings, m_index, m_mutex, issued>>

(* When a lock, shared or exclusive, can be taken: a section under the     *)
(* shared lock is one step, so only a writer is ever in the way.           *)
NoLock   == TRUE
LockFree == m_mutex = Nobody

Known(s) == s \in DOMAIN m_index

(* internalize under the shared lock.                                      *)
Lookup(t) ==
    /\ pc[t] = "internalize"
    /\ call[t].arg # Empty
    /\ LockFree
    /\ IF Known(call[t].arg)
       THEN Answer(t, m_index[call[t].arg]) /\ Goto(t, "return")
       ELSE Goto(t, "lock") /\ UNCHANGED call
    /\ UNCHANGED <<m_strings, m_index, m_mutex, issued>>

(* The recheck under the exclusive lock: another thread may have inserted  *)
(* the string since the lookup.                                            *)
NoRecheck(t) ==
    /\ pc[t] = "lock"
    /\ LockFree
    /\ m_mutex' = t /\ Goto(t, "push")
    /\ UNCHANGED <<m_strings, m_index, call, issued>>

Recheck(t) ==
    /\ pc[t] = "lock"
    /\ LockFree
    /\ IF Known(call[t].arg)
       THEN /\ Answer(t, m_index[call[t].arg])
            /\ Goto(t, "return")
            /\ UNCHANGED m_mutex
       ELSE m_mutex' = t /\ Goto(t, "push") /\ UNCHANGED call
    /\ UNCHANGED <<m_strings, m_index, issued>>

(* The new symbol is the size of the vector before the string is appended. *)
SizeAfterPush == Len(m_strings) + 1
NewIndex      == Len(m_strings)

Push(t) ==
    /\ pc[t] = "push"
    /\ Answer(t, NewIndex)
    /\ m_strings' = Append(m_strings, call[t].arg)
    /\ Goto(t, "insert")
    /\ UNCHANGED <<m_index, m_mutex, issued>>

InsertKeepsLock(t) ==
    /\ pc[t] = "insert"
    /\ m_index' = [s \in DOMAIN m_index \cup {call[t].arg} |->
                     IF s = call[t].arg THEN call[t].answer ELSE m_index[s]]
    /\ Goto(t, "return")
    /\ UNCHANGED <<m_strings, m_mutex, call, issued>>

Insert(t) ==
    /\ pc[t] = "insert"
    /\ m_index' = [s \in DOMAIN m_index \cup {call[t].arg} |->
                     IF s = call[t].arg THEN call[t].answer ELSE m_index[s]]
    /\ m_mutex' = Nobody
    /\ Goto(t, "return")
    /\ UNCHANGED <<m_strings, call, issued>>

(* check_internalization, for Symbol::maybe.                               *)
Check(t) ==
    /\ pc[t] = "check"
    /\ call[t].arg # Empty
    /\ LockFree
    /\ Answer(t, IF Known(call[t].arg) THEN <<TRUE, m_index[call[t].arg]>>
                                       ELSE <<FALSE, 0>>)
    /\ Goto(t, "return")
    /\ UNCHANGED <<m_strings, m_index, m_mutex, issued>>

(* resolve, on the way its assertion allows: the text for an invalid       *)
(* symbol is never given, as ResolveAssertion shows.                       *)
Resolve(t) ==
    /\ pc[t] = "resolve"
    /\ LockFree
    /\ call[t].arg < Len(m_strings)
    /\ Answer(t, m_strings[call[t].arg + 1])
    /\ Goto(t, "return")
    /\ UNCHANGED <<m_strings, m_index, m_mutex, issued>>

(* What the caller is left with: the Symbol of its string.  Symbol::maybe  *)
(* gives it when the string is known, and the empty symbol otherwise.      *)
Handed(c) ==
    CASE c.op = "internalize"            -> {<<c.arg, c.answer>>}
      [] c.op = "check" /\ c.answer[1]   -> {<<c.arg, c.answer[2]>>}
      [] c.op = "check" /\ ~c.answer[1]  -> {}
      [] c.op = "resolve"                -> {}

Return(t) ==
    /\ pc[t] = "return"
    /\ issued' = issued \cup Handed(call[t])
    /\ call' = [call EXCEPT ![t] = None]
    /\ Goto(t, "idle")
    /\ UNCHANGED <<m_strings, m_index, m_mutex>>

Step(t) ==
    \/ EmptyShortcut(t)
    \/ Lookup(t)
    \/ Recheck(t)
    \/ Push(t)
    \/ Insert(t)
    \/ Check(t)
    \/ Resolve(t)
    \/ Return(t)

Next ==
    \E t \in Callers :
        \/ \E s \in Strings : Begin(t, "internalize", s) \/ Begin(t, "check", s)
        \/ \E symbol \in issued : Begin(t, "resolve", symbol[2])
        \/ Step(t)

Spec == Init /\ [][Next]_vars

(* Every thread is run, and a shared_mutex that is free again and again is *)
(* obtained in the end.                                                    *)
FairSpec == Spec /\ \A t \in Callers : SF_vars(Step(t))

-----------------------------------------------------------------------------
(* Correctness.                                                            *)

Ops == {"internalize", "check", "resolve"}

TypeOK ==
    /\ m_strings \in Seq(Strings)
    /\ DOMAIN m_index \subseteq Strings
    /\ \A s \in DOMAIN m_index : m_index[s] \in Nat
    /\ m_mutex \in Callers \cup {Nobody}
    /\ pc \in [Callers -> Ops \cup {"idle", "lock", "push", "insert", "return"}]
    /\ DOMAIN call = Callers
    /\ \A symbol \in issued : symbol \in Strings \X Nat

(* Two Symbols are equal exactly when their strings are, and to_string of  *)
(* a symbol is the string it was made from, however many threads intern at *)
(* the same time: Symbol::operator== compares the numbers only.            *)
SymbolEqualityIsStringEquality ==
    /\ \A a, b \in issued : a[1] = b[1] <=> a[2] = b[2]
    /\ \A a \in issued : a[2] < Len(m_strings) /\ m_strings[a[2] + 1] = a[1]

(* When no writer is inside, vector and index are inverse to each other:   *)
(* no string was interned twice and none is in only one of the two.        *)
IndexMatchesStrings ==
    m_mutex = Nobody =>
        /\ \A s \in DOMAIN m_index :
              m_index[s] < Len(m_strings) /\ m_strings[m_index[s] + 1] = s
        /\ \A i \in 1 .. Len(m_strings) :
              m_strings[i] \in DOMAIN m_index /\ m_index[m_strings[i]] = i - 1

(* resolve's assert(m_strings.size() > size_t(symbol_id)) holds whenever   *)
(* a thread gets to it.                                                    *)
ResolveAssertion ==
    \A t \in Callers : pc[t] = "resolve" => call[t].arg < Len(m_strings)

(* Every call returns: the two locks of internalize do not deadlock.       *)
CallsReturn == \A t \in Callers : pc[t] # "idle" ~> pc[t] = "idle"

(* The table implements the atomic interner.                               *)
I == INSTANCE Interner
Implements == I!Spec
=============================================================================
