---------------------------- MODULE CommandLine ----------------------------
(***************************************************************************)
(* What `GraphRouter <options>' sends to a running router: main of         *)
(* src/GraphRouter.c.  A line is the options that getopt_long finds, in    *)
(* their order.  Each acts when its turn comes, so that an address after   *)
(* the command it was meant for is not seen by it; a command sends its     *)
(* packet at once and ends the program.                                    *)
(*                                                                         *)
(* A policy is one of the three names; for any other no policy byte is     *)
(* written, and the router reads the packet past its end.                  *)
(***************************************************************************)
EXTENDS Integers, Sequences, SequencesExt

Flag(name)         == [name |-> name]
Option(name, value) == [name |-> name, value |-> value]

\* The program before the first option: its socket is connected already.
Connected == [source |-> 0, target |-> 0, packets |-> <<>>, ends |-> FALSE]

Sends(o, packet) == [o EXCEPT !.packets = <<packet>>, !.ends = TRUE]

\* The directives that the router only logs.
Logged == [kind |-> "other"]

\* Verbosity, MTU and the form of the listing have no part in this.
Acts(o, option) ==
    IF o.ends THEN o ELSE
    CASE option.name = "source"  -> [o EXCEPT !.source = option.value]
      [] option.name = "target"  -> [o EXCEPT !.target = option.value]
      [] option.name = "connect" ->
            Sends(o, [kind |-> "connect", source |-> o.source, target |-> o.target])
      [] option.name = "policy"  ->
            Sends(o, [kind |-> "policy", policy |-> option.value, target |-> o.target])
      [] option.name \in {"status", "disconnect"} -> Sends(o, Logged)
      [] option.name \in {"help", "version", "unknown"} -> [o EXCEPT !.ends = TRUE]
      [] OTHER -> o

\* A line without a command does not end: it goes on as a second router, and keeps
\* its socket to the first.
Run(line) == FoldLeft(Acts, Connected, line)

=============================================================================
