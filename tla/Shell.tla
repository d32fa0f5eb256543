------------------------------- MODULE Shell --------------------------------
(***************************************************************************)
(* The interactive shell (sdshell.py): the options of the pseudo-code, kept*)
(* from one command to the next, and the view, which is generated anew only*)
(* when a command changes an option.                                       *)
(***************************************************************************)
EXTENDS Naturals, FiniteSets

CONSTANTS
  Threshold,  (* the values of w-burst-threshold, 0 among them               *)
  Selection   (* the ranks a command selects                                 *)

ASSUME OptionsAssumption == Threshold \subseteq Nat /\ 0 \in Threshold /\ {} \notin Selection

VARIABLES
  pc,         (* the options of the pseudocode object                        *)
  gui,        (* the options the current view was generated with             *)
  screen,     (* the views the last command showed: one, or none             *)
  plot,       (* the process that plots the clustering: "none" when clusters *)
              (* come from loop identifiers, "ready", "started"              *)
  status,     (* the shell is "running", has "quit" or "died" of an exception*)
  command,    (* history: the last command, "malformed" if an argument was   *)
              (* missing or no number                                        *)
  asked,      (* history: the words given since default was last obeyed      *)
  rejected    (* history: a command was rejected since the view was generated*)

shellvars == <<pc, gui, screen, plot, status, command, asked, rejected>>

(* No view.                                                                  *)
None == <<>>

(* The whole list of ranks, which equals no set of ranks.                    *)
all_ranks == {}

Words == {"wo-cs", "w-burst-info", "default"}

(* The options that take an argument.                                        *)
Arguments == {"w-burst-threshold", "ranks"}

(* The words of a command, the threshold and the selection given with it, if *)
(* any, and the options whose argument is missing or no number.              *)
Command ==
  {args \in [words     : SUBSET Words,
             threshold : {{}} \cup {{t} : t \in Threshold},
             ranks     : {{}} \cup {{s} : s \in Selection},
             malformed : SUBSET Arguments] :
     /\ "w-burst-threshold" \in args.malformed => args.threshold = {}
     /\ "ranks" \in args.malformed => args.ranks = {}}

Given(option, otherwise) == IF option = {} THEN otherwise ELSE CHOOSE v \in option : TRUE

(* "pseudocode" alone means "pseudocode default".                            *)
WordsOf(args) ==
  IF args = [words |-> {}, threshold |-> {}, ranks |-> {}, malformed |-> {}]
  THEN {"default"} ELSE args.words

(* The options that are assigned before the command is validated.            *)
Assigned(args) ==
  [pc EXCEPT !.only_mpi        = @ \/ "wo-cs" \in args.words,
             !.show_burst_info = @ \/ "w-burst-info" \in args.words,
             !.burst_threshold = Given(args.threshold, @)]

Rejected(args) == "default" \in args.words /\ args.words \cap {"wo-cs", "w-burst-info"} # {}

(* default does not touch the threshold.                                     *)
Reset(options, args) ==
  IF "default" \in WordsOf(args)
  THEN [options EXCEPT !.only_mpi = FALSE, !.show_burst_info = FALSE] ELSE options

(* Bug variant: the selected ranks are added to those selected before.       *)
filtered_adding(options, args) ==
  [options EXCEPT !.show_ranks = @ \cup Given(args.ranks, all_ranks)]

Filtered(options, args) ==
  [options EXCEPT !.show_ranks = Given(args.ranks, all_ranks)]

(* Bug variants: the view is kept if the reset changes the options only; if  *)
(* the ranks are the only change.                                            *)
gen_without_reset(args) == Assigned(args) # pc \/ args.ranks # {} \/ pc.show_ranks # all_ranks
gen_without_ranks(args) == Assigned(args) # pc \/ Reset(Assigned(args), args) # Assigned(args)

(* gen: an assignment changed something.  Selected ranks, a fresh iterator,  *)
(* never equal what is there, not even the same ranks.                       *)
gen(args) ==
  \/ Assigned(args) # pc
  \/ Reset(Assigned(args), args) # Assigned(args)
  \/ args.ranks # {}
  \/ pc.show_ranks # all_ranks

(* Bug variant: a view without call paths cannot be generated.               *)
fails_without_paths(options) == options.only_mpi

(* generate: without call paths the computation before an MPI call is built  *)
(* without its ranks, a TypeError.                                           *)
GenerateFails(options) == options.only_mpi /\ options.show_burst_info

(* The exceptions of a malformed argument come in the order of the code: that*)
(* of the threshold before the command is validated, that of the ranks after *)
(* default was obeyed.                                                       *)
do_pseudocode(args) ==
  /\ status = "running"
  /\ command' = IF args.malformed = {} THEN "pseudocode" ELSE "malformed"
  /\ \/ /\ "w-burst-threshold" \in args.malformed
        /\ pc' = Assigned(args)
        /\ status' = "died" /\ screen' = None
        /\ asked' = asked \cup (args.words \ {"default"})
        /\ UNCHANGED <<gui, rejected>>
     \/ /\ "w-burst-threshold" \notin args.malformed /\ Rejected(args)
        /\ pc' = Assigned(args)
        /\ screen' = None
        /\ asked' = asked \cup (args.words \ {"default"})
        /\ rejected' = TRUE
        /\ UNCHANGED <<gui, status>>
     \/ /\ args.malformed = {"ranks"} /\ ~Rejected(args)
        /\ pc' = Reset(Assigned(args), args)
        /\ status' = "died" /\ screen' = None
        /\ asked' = IF "default" \in WordsOf(args) THEN {} ELSE asked \cup args.words
        /\ UNCHANGED <<gui, rejected>>
     \/ /\ args.malformed = {} /\ ~Rejected(args)
        /\ pc' = Filtered(Reset(Assigned(args), args), args)
        /\ asked' = IF "default" \in WordsOf(args) THEN {} ELSE asked \cup args.words
        /\ \/ /\ ~gen(args)
              /\ screen' = <<gui>>
              /\ UNCHANGED <<gui, status, rejected>>
           \/ /\ gen(args) /\ ~GenerateFails(pc')
              /\ gui' = pc' /\ screen' = <<pc'>>
              /\ rejected' = FALSE
              /\ UNCHANGED status
           \/ /\ gen(args) /\ GenerateFails(pc')
              /\ status' = "died" /\ screen' = None
              /\ UNCHANGED <<gui, rejected>>
  /\ UNCHANGED plot

(* A process starts once; there is none to start if clusters are loops.      *)
do_clustering ==
  /\ status = "running"
  /\ command' = "clustering"
  /\ screen' = None
  /\ \/ plot = "ready" /\ plot' = "started" /\ UNCHANGED status
     \/ plot # "ready" /\ status' = "died" /\ UNCHANGED plot
  /\ UNCHANGED <<pc, gui, asked, rejected>>

do_quit ==
  /\ status = "running"
  /\ command' = "quit"
  /\ status' = "quit" /\ screen' = None
  /\ UNCHANGED <<pc, gui, plot, asked, rejected>>

Default == [only_mpi |-> FALSE, show_burst_info |-> FALSE, burst_threshold |-> 0,
            show_ranks |-> all_ranks]

ShellInit ==
  /\ pc = Default /\ gui = Default
  /\ screen = None
  /\ plot \in {"ready", "none"}
  /\ status = "running" /\ command = "none"
  /\ asked = {} /\ rejected = FALSE

ShellNext == (\E args \in Command : do_pseudocode(args)) \/ do_clustering \/ do_quit

ShellSpec == ShellInit /\ [][ShellNext]_shellvars

-----------------------------------------------------------------------------
Options == [only_mpi : BOOLEAN, show_burst_info : BOOLEAN, burst_threshold : Threshold,
            show_ranks : {all_ranks} \cup Selection]

(* The type invariant. *)
ShellOK ==
  /\ pc \in Options /\ gui \in Options
  /\ screen \in {None} \cup {<<view>> : view \in Options}
  /\ plot \in {"none", "ready", "started"}
  /\ status \in {"running", "quit", "died"}
  /\ command \in {"none", "pseudocode", "malformed", "clustering", "quit"}
  /\ asked \subseteq Words /\ rejected \in BOOLEAN

(* The cached view is that of the options in force, whatever commands        *)
(* changed them - unless one was rejected after it had changed them.         *)
ViewIsCurrent == status # "died" /\ ~rejected => gui = pc

(* A command with well-formed arguments ends the shell only if it is the     *)
(* clustering without a process to start, or a pseudocode when wo-cs and     *)
(* w-burst-info were both given, in one command or in several, since default *)
(* was last obeyed.                                                          *)
DiesOfBothOptions ==
  status = "died" =>
    \/ command = "pseudocode" /\ {"wo-cs", "w-burst-info"} \subseteq asked
    \/ command = "clustering" /\ plot # "ready"
    \/ command = "malformed"

(* default gets the default view in every state the shell can be in, after   *)
(* rejected commands too; only a threshold given before stays.               *)
DefaultIsDefault ==
  [][\A args \in Command :
       do_pseudocode(args) /\ WordsOf(args) = {"default"} /\ args.ranks = {} /\ args.malformed = {} =>
         /\ status' = "running"
         /\ screen' = <<[Default EXCEPT !.burst_threshold = Given(args.threshold, pc.burst_threshold)]>>]_shellvars
=============================================================================
