----------------------------- MODULE MessageLog -----------------------------
(***************************************************************************)
(* What message sending promises, seen from outside: every conversation is *)
(* an append-only log, the position of a message in it is its message      *)
(* number, and a message is announced to the room at most once and only    *)
(* after it is in the log.  SendMessage is shown to implement this.        *)
(***************************************************************************)
EXTENDS Naturals, Sequences

CONSTANTS Conversations,  \* conversation ids
          Messages,       \* the messages that may ever be written
          ConvOf          \* ConvOf[m]: the conversation m is sent to

VARIABLES log,            \* log[c]: the messages of c, by message number
          delivered       \* messages announced as 'newMessage', in order

vars == <<log, delivered>>

Written(m) == \E n \in 1..Len(log[ConvOf[m]]) : log[ConvOf[m]][n] = m

Announced(m) == \E i \in 1..Len(delivered) : delivered[i] = m

Init == /\ log = [c \in Conversations |-> <<>>]
        /\ delivered = <<>>

AppendMessage(m) ==
  /\ ~Written(m)
  /\ log' = [log EXCEPT ![ConvOf[m]] = Append(@, m)]
  /\ UNCHANGED delivered

Deliver(m) ==
  /\ Written(m)
  /\ ~Announced(m)
  /\ delivered' = Append(delivered, m)
  /\ UNCHANGED log

Next == \E m \in Messages : AppendMessage(m) \/ Deliver(m)

Spec == Init /\ [][Next]_vars
=============================================================================
