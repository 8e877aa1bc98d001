------------------------------ MODULE Commands ------------------------------
(***************************************************************************)
(* A script that configures a running router, as src/bash/AnycastTest.sh   *)
(* does: one `GraphRouter <options>' after the other, among clients of     *)
(* other kinds.  Each line is a connection of its own.  A                  *)
(* program ends once its packet is in the socket, long before the router   *)
(* reads it, and the next may be accepted into any slot that is free then. *)
(***************************************************************************)
EXTENDS RouterLoop, CommandLine

CONSTANTS
    Lines,    \* the command lines, in the order of the script
    Command   \* the connection of each

\* What the constants are.
ScriptOfLines ==
    /\ Command \in [DOMAIN Lines -> Conn]
    /\ IsInjective(Command)
    /\ \A i \in DOMAIN Lines : Script[Command[i]] = Run(Lines[i]).packets

Others == Conn \ Range(Command)

\* The shell starts a line when the one before it has ended.
Ended(c) == peer[c] \notin {"new", "up"}

Starts(i) ==
    /\ i > 1 => Ended(Command[i - 1])
    /\ Made(Command[i])

Exits(i) ==
    /\ Run(Lines[i]).ends
    /\ sent[Command[i]] = Len(Script[Command[i]])
    /\ Closes(Command[i])

CommandStep == \E i \in DOMAIN Lines :
    Starts(i) \/ Writes(Command[i]) \/ Exits(i)

OtherStep ==
    \/ \E c \in Others : Made(c) \/ Writes(c) \/ Closes(c)
    \/ \E c \in Conn : ResetArrives(c)

CommandsNext == RouterStep \/ CommandStep \/ OtherStep

CommandsSpec ==
    /\ LoopInit /\ [][CommandsNext]_loopVars
    /\ WF_loopVars(~MayWait /\ RouterStep) /\ WF_loopVars(CommandStep)

-----------------------------------------------------------------------------

\* The table after one command on a table.
After(t, p) ==
    CASE p.kind = "connect" -> Link(t, p.source, p.target)
      [] p.kind = "policy" /\ p.target \in Known(t) ->
            WithPolicy(t, p.target, p.policy)
      [] OTHER -> t

\* What a reader of the script expects.
Intended ==
    FoldLeft(After, [a \in {} |-> NewContext],
             FlattenSeq([i \in DOMAIN Lines |-> Run(Lines[i]).packets]))

TookEffect ==
    \A a \in DOMAIN Intended :
        /\ a \in Known(address_table)
        /\ address_table[a].forward_policy = Intended[a].forward_policy
        /\ \A target \in Addr :
              Cardinality({k \in DOMAIN address_table[a].forward :
                              address_table[a].forward[k] = target})
            = Cardinality({k \in DOMAIN Intended[a].forward :
                              Intended[a].forward[k] = target})

(***************************************************************************)
(* "Connect --source to --target" and "Change the link policy", the help   *)
(* texts of --connect and --policy in lines 885 and 886: the edges of the  *)
(* script are there, each once, and the policies are those of its last     *)
(* word on them.  But a line is not waited for: its program ends before    *)
(* the router reads it, and the slot that an earlier line has left puts a  *)
(* late line before an early one.  A policy for a source that has no       *)
(* context yet is ignored.                                                 *)
(***************************************************************************)
ScriptTakesEffect == <>[]TookEffect

=============================================================================
