------------------------------ MODULE ToolCall ------------------------------
(***************************************************************************)
(* What the alarm-management MCP server promises the caller of a tool: one *)
(* answer, in one step, that the arguments of the call allow; or, when the *)
(* server goes down, none.  AlarmTools, with its attempts, backoffs and    *)
(* shutdowns, is shown to implement this.                                  *)
(***************************************************************************)
CONSTANTS Calls,        \* the tool calls
          None,         \* no arguments yet, no answer yet
          Allowed(_, _) \* which arguments allow which answers

VARIABLES asked,        \* the arguments of each call
          told          \* the answer of each call

vars == <<asked, told>>

Init ==
  /\ asked = [c \in Calls |-> None]
  /\ told  = [c \in Calls |-> None]

Ask(c) ==
  /\ asked[c] = None
  /\ asked'[c] # None
  /\ asked' = [asked EXCEPT ![c] = asked'[c]]
  /\ UNCHANGED told

Tell(c) ==
  /\ asked[c] # None
  /\ told[c] = None
  /\ told'[c] # None
  /\ Allowed(asked[c], told'[c])
  /\ told' = [told EXCEPT ![c] = told'[c]]
  /\ UNCHANGED asked

Next == \E c \in Calls : Ask(c) \/ Tell(c)

Spec == Init /\ [][Next]_vars
=============================================================================
