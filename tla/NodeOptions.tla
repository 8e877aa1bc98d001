----------------------------- MODULE NodeOptions -----------------------------
(***************************************************************************)
(* How a node reads its command line: main of src/GraphWrap.c.  A line is  *)
(* the options that getopt_long finds, in their order; the words of the    *)
(* inner binary come after them, and its options are taken for the node's  *)
(* unless "--" stands between.                                             *)
(*                                                                         *)
(* The host, the port and the verbosity have no part in what a node does   *)
(* once it is connected, and neither has the mux mode.                     *)
(***************************************************************************)
EXTENDS Integers, Sequences, SequencesExt

Flag(name)          == [name |-> name]
Option(name, value) == [name |-> name, value |-> value]

Newline == 10

Defaults == [address |-> 0, watched |-> 0, echo |-> FALSE, immediate |-> FALSE,
             mux |-> "noop", demux |-> "noop", delimiter |-> Newline,
             quits |-> FALSE]

\* The two tests of strcmp are the wrong way round.
MuxMode(name) == IF name = "noop" THEN "merge" ELSE "noop"

\* With -o the streams are merged, whatever --demux says before or after; a mode
\* that is none leaves the one there was.
DemuxMode(o, name) ==
    IF o.echo THEN "merge"
    ELSE IF name \in {"noop", "spawn", "merge"} THEN name ELSE o.demux

\* The byte that a character behind a backslash stands for: 0, r, n, t or itself.
Escape(char) == CASE char = 48  -> 0
                  [] char = 114 -> 13
                  [] char = 110 -> Newline
                  [] char = 116 -> 9
                  [] OTHER      -> char

\* -i watches stdin there and then, before the router, and again when repeated.
Took(o, option) ==
    IF o.quits THEN o ELSE
    CASE option.name = "address"   -> [o EXCEPT !.address = option.value]
      [] option.name = "input"     -> [o EXCEPT !.watched = @ + 1]
      [] option.name = "output"    -> [o EXCEPT !.echo = TRUE, !.demux = "merge"]
      [] option.name = "mux"       -> [o EXCEPT !.mux = MuxMode(option.value)]
      [] option.name = "demux"     -> [o EXCEPT !.demux = DemuxMode(o, option.value)]
      [] option.name = "immediate" -> [o EXCEPT !.immediate = TRUE]
      [] option.name = "delim"     -> [o EXCEPT !.delimiter = option.value]
      [] option.name = "escaped"   -> [o EXCEPT !.delimiter = Escape(option.value)]
      [] option.name \in {"help", "usage", "version"} -> [o EXCEPT !.quits = TRUE]
      [] OTHER -> o

Parsed(line) == FoldLeft(Took, Defaults, line)

=============================================================================
