------------------------------ MODULE Interner ------------------------------
(***************************************************************************)
(* What fcgiserver::SymbolServer promises its callers: every string has    *)
(* one number, given once and for ever, and each call takes effect at one  *)
(* moment between its start and its return.                                *)
(***************************************************************************)
EXTENDS Naturals, Sequences

CONSTANTS
    Callers,   \* the threads that use symbols
    Strings,   \* the strings they intern, the empty string among them
    Empty,     \* the empty string: symbol 0
    NoAnswer   \* a call that has not been answered yet

VARIABLES
    m_strings,  \* the strings in the order of their numbers, from 0
    call        \* the call each thread is in: operation, argument, answer

vars == <<m_strings, call>>

None == [op |-> "none", arg |-> Empty, answer |-> NoAnswer]

Init ==
    /\ m_strings = <<Empty>>
    /\ call = [t \in Callers |-> None]

Begin(t, op, arg) ==
    /\ call[t].op = "none"
    /\ call' = [call EXCEPT ![t] = [op |-> op, arg |-> arg, answer |-> NoAnswer]]
    /\ UNCHANGED m_strings

Answer(t, answer) == call' = [call EXCEPT ![t].answer = answer]

Unanswered(t, op) == call[t].op = op /\ call[t].answer = NoAnswer

(* The number of a known string; a new string gets the next number.        *)
Internalize(t) ==
    /\ Unanswered(t, "internalize")
    /\ \/ \E i \in 1 .. Len(m_strings) :
             /\ m_strings[i] = call[t].arg
             /\ Answer(t, i - 1)
             /\ UNCHANGED m_strings
       \/ /\ \A i \in 1 .. Len(m_strings) : m_strings[i] # call[t].arg
          /\ Answer(t, Len(m_strings))
          /\ m_strings' = Append(m_strings, call[t].arg)

(* Whether a string is known, and its number.                              *)
Check(t) ==
    /\ Unanswered(t, "check")
    /\ \/ \E i \in 1 .. Len(m_strings) :
             m_strings[i] = call[t].arg /\ Answer(t, <<TRUE, i - 1>>)
       \/ /\ \A i \in 1 .. Len(m_strings) : m_strings[i] # call[t].arg
          /\ Answer(t, <<FALSE, 0>>)
    /\ UNCHANGED m_strings

(* The string of a number that was given out.                              *)
Resolve(t) ==
    /\ Unanswered(t, "resolve")
    /\ Answer(t, m_strings[call[t].arg + 1])
    /\ UNCHANGED m_strings

Return(t) ==
    /\ call[t].op # "none"
    /\ call[t].answer # NoAnswer
    /\ call' = [call EXCEPT ![t] = None]
    /\ UNCHANGED m_strings

Next ==
    \E t \in Callers :
        \/ \E s \in Strings : Begin(t, "internalize", s) \/ Begin(t, "check", s)
        \/ \E i \in 0 .. Len(m_strings) - 1 : Begin(t, "resolve", i)
        \/ Internalize(t)
        \/ Check(t)
        \/ Resolve(t)
        \/ Return(t)

Spec == Init /\ [][Next]_vars
=============================================================================
