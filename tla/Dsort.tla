-------------------------------- MODULE Dsort --------------------------------
(***************************************************************************)
(* Exercise 2: dsort runs two commands at once with their output in one    *)
(* pipe, waits for both, reads and sorts the lines, and pipes them through *)
(* a child that runs uniq -d.                                              *)
(*                                                                         *)
(* An action is a system call, or what a process does between two of them  *)
(* that another can see.  Every write is one line; a pipe holds Capacity   *)
(* lines.  A line is known by itself and by the rank of its lower-case     *)
(* form, which is all that uniq and strcasecmp tell apart.                 *)
(***************************************************************************)
EXTENDS Integers, Sequences, SequencesExt

CONSTANTS
  Lines,      \* the lines the commands print
  Rank,       \* Rank[l]: the place of l in the order of strcasecmp
  Outputs,    \* what a command may print, a set of sequences of lines
  Capacity,   \* the lines a pipe holds
  Faults      \* what the environment may do, a subset of FaultKinds

FaultKinds == {"pipe", "fork", "exec", "status", "signal"}

ASSUME DsortAssumption ==
  /\ Rank \in [Lines -> Nat] /\ Outputs \subseteq Seq(Lines)
  /\ Capacity \in Nat \ {0} /\ Faults \subseteq FaultKinds

Commands == {"cmd1", "cmd2"}
Children == Commands \cup {"uniq"}

VARIABLES
  pc,       \* where the parent is
  status,   \* how the parent ended
  child,    \* child[c]: none, forked, running, ok, bad (ended), reaped
  out,      \* out[c]: what command c has still to print
  want,     \* history: all that command c prints
  ends,     \* the open ends of pipes: <<process, pipe, "r" or "w">>
  pipe,     \* pipe[1], pipe[2]: the lines in the pipes
  lines,    \* the array of the parent
  passed,   \* the lines uniq has read
  result    \* the lines uniq has printed

vars == <<pc, status, child, out, want, ends, pipe, lines, passed, result>>

Init ==
  /\ pc = "pipe1" /\ status = "none"
  /\ child = [c \in Children |-> "none"]
  /\ want \in [Commands -> Outputs] /\ out = want
  /\ ends = {} /\ pipe = [i \in {1, 2} |-> <<>>]
  /\ lines = <<>> /\ passed = <<>> /\ result = <<>>

EndsOf(p)   == {e \in ends : e[1] = p}
Held(i, rw) == \E e \in ends : e[2] = i /\ e[3] = rw
Goto(here, next) == pc = here /\ pc' = next

-----------------------------------------------------------------------------
(* The parent.                                                             *)

\* exit, or the end by a signal: the system closes what is open.
ParentEnds(how) ==
  /\ pc' = "ended" /\ status' = how
  /\ ends' = ends \ EndsOf("parent")

MakePipe(i, here, next) ==
  /\ UNCHANGED <<child, out, want, pipe, lines, passed, result>>
  /\ \/ /\ Goto(here, next)
        /\ ends' = ends \cup {<<"parent", i, "r">>, <<"parent", i, "w">>}
        /\ UNCHANGED status
     \/ pc = here /\ "pipe" \in Faults /\ ParentEnds("failure")

\* exec_cmd and exec_uniq: the child inherits what the parent has open.
Fork(c, here, next) ==
  /\ UNCHANGED <<out, want, pipe, lines, passed, result>>
  /\ \/ /\ Goto(here, next)
        /\ child' = [child EXCEPT ![c] = "forked"]
        /\ ends' = ends \cup {<<c, e[2], e[3]>> : e \in EndsOf("parent")}
        /\ UNCHANGED status
     \/ pc = here /\ "fork" \in Faults /\ ParentEnds("failure") /\ UNCHANGED child

\* From here on sigint_handler is in place.
Register ==
  /\ Goto("register", "wait_commands")
  /\ UNCHANGED <<status, child, out, want, ends, pipe, lines, passed, result>>

\* Mutant: the status of a child is not looked at.
Reap_IgnoreStatus(here) ==
  \E c \in Children :
    /\ pc = here /\ child[c] \in {"ok", "bad"}
    /\ child' = [child EXCEPT ![c] = "reaped"]
    /\ UNCHANGED <<pc, status, out, want, ends, pipe, lines, passed, result>>

\* wait_children: one child; the first that failed ends the parent.
Reap(here) ==
  \E c \in Children :
    /\ pc = here /\ child[c] \in {"ok", "bad"}
    /\ child' = [child EXCEPT ![c] = "reaped"]
    /\ IF child[c] = "ok" THEN UNCHANGED <<pc, status, ends>> ELSE ParentEnds("failure")
    /\ UNCHANGED <<out, want, pipe, lines, passed, result>>

NoChildren == \A c \in Children : child[c] \in {"none", "reaped"}

\* ECHILD, and setup_pipe_read.
SetupRead ==
  /\ Goto("wait_commands", "read") /\ NoChildren
  /\ ends' = ends \ {<<"parent", 1, "w">>}
  /\ UNCHANGED <<status, child, out, want, pipe, lines, passed, result>>

\* getline in read_lines.
ReadLine ==
  /\ pc = "read" /\ pipe[1] # <<>>
  /\ lines' = Append(lines, Head(pipe[1]))
  /\ pipe' = [pipe EXCEPT ![1] = Tail(@)]
  /\ UNCHANGED <<pc, status, child, out, want, ends, passed, result>>

Sorted(s) == \A i, j \in DOMAIN s : i < j => Rank[s[i]] <= Rank[s[j]]
Perms(n)  == {f \in [1 .. n -> 1 .. n] : IsInjective(f)}

\* The end of the input, and qsort, which leaves the order of equals open.
Sort ==
  /\ Goto("read", "pipe2") /\ pipe[1] = <<>> /\ ~Held(1, "w")
  /\ \E f \in Perms(Len(lines)) :
       /\ lines' = [i \in DOMAIN lines |-> lines[f[i]]]
       /\ Sorted(lines')
  /\ UNCHANGED <<status, child, out, want, ends, pipe, passed, result>>

\* setup_pipe_write: stdout is the write end from now on.
SetupWrite ==
  /\ Goto("setup_write", "print")
  /\ ends' = ends \ {<<"parent", 2, "r">>}
  /\ UNCHANGED <<status, child, out, want, pipe, lines, passed, result>>

\* fprintf and fflush of one line; SIGPIPE if nobody can read it.
PrintLine ==
  /\ pc = "print" /\ lines # <<>>
  /\ UNCHANGED <<child, out, want, passed, result>>
  /\ \/ /\ Held(2, "r") /\ Len(pipe[2]) < Capacity
        /\ pipe' = [pipe EXCEPT ![2] = Append(@, Head(lines))]
        /\ lines' = Tail(lines)
        /\ UNCHANGED <<pc, status, ends>>
     \/ ~Held(2, "r") /\ ParentEnds("failure") /\ UNCHANGED <<pipe, lines>>

CloseStdout ==
  /\ Goto("print", "wait_uniq") /\ lines = <<>>
  /\ ends' = ends \ {<<"parent", 2, "w">>}
  /\ UNCHANGED <<status, child, out, want, pipe, lines, passed, result>>

Return ==
  /\ pc = "wait_uniq" /\ NoChildren
  /\ ParentEnds("success")
  /\ UNCHANGED <<child, out, want, pipe, lines, passed, result>>

Parent ==
  \/ MakePipe(1, "pipe1", "fork1") \/ Fork("cmd1", "fork1", "fork2")
  \/ Fork("cmd2", "fork2", "register") \/ Register
  \/ Reap("wait_commands") \/ SetupRead \/ ReadLine \/ Sort
  \/ MakePipe(2, "pipe2", "fork_uniq") \/ Fork("uniq", "fork_uniq", "setup_write")
  \/ SetupWrite \/ PrintLine \/ CloseStdout \/ Reap("wait_uniq") \/ Return

\* sigint_handler kills the commands; a signal before it is in place only
\* ends the parent.
Signal ==
  LET killed == IF pc \in {"pipe1", "fork1", "fork2", "register"} THEN {}
                ELSE {c \in Commands : child[c] \in {"forked", "running"}}
  IN
  /\ "signal" \in Faults /\ pc # "ended"
  /\ pc' = "ended" /\ status' = "failure"
  /\ child' = [c \in Children |-> IF c \in killed THEN "bad" ELSE child[c]]
  /\ ends' = {e \in ends : e[1] \notin killed \cup {"parent"}}
  /\ UNCHANGED <<out, want, pipe, lines, passed, result>>

-----------------------------------------------------------------------------
(* The children.                                                           *)

ChildEnds(c, how) ==
  /\ child' = [child EXCEPT ![c] = how]
  /\ ends' = ends \ EndsOf(c)

\* setup_pipe_write or the redirection of stdin, then execvp.
Exec(c, closed) ==
  /\ child[c] = "forked"
  /\ \/ /\ child' = [child EXCEPT ![c] = "running"]
        /\ ends' = ends \ {<<c, closed[1], closed[2]>>}
     \/ "exec" \in Faults /\ ChildEnds(c, "bad")
  /\ UNCHANGED <<pc, status, out, want, pipe, lines, passed, result>>

\* Mutant: setup_pipe_write closes one descriptor only.
StartCommand_KeepRead(c) == Exec(c, <<2, "r">>)

StartCommand(c) == Exec(c, <<1, "r">>)

CommandPrints(c) ==
  /\ child[c] = "running" /\ out[c] # <<>>
  /\ \/ /\ Held(1, "r") /\ Len(pipe[1]) < Capacity
        /\ pipe' = [pipe EXCEPT ![1] = Append(@, Head(out[c]))]
        /\ out' = [out EXCEPT ![c] = Tail(@)]
        /\ UNCHANGED <<child, ends>>
     \/ ~Held(1, "r") /\ ChildEnds(c, "bad") /\ UNCHANGED <<pipe, out>>
  /\ UNCHANGED <<pc, status, want, lines, passed, result>>

CommandEnds(c) ==
  /\ child[c] = "running" /\ out[c] = <<>>
  /\ ChildEnds(c, "ok") \/ ("status" \in Faults /\ ChildEnds(c, "bad"))
  /\ UNCHANGED <<pc, status, out, want, pipe, lines, passed, result>>

\* Mutant: exec_uniq leaves the write end open.
StartUniq_KeepWrite == Exec("uniq", <<2, "none">>)

StartUniq == Exec("uniq", <<2, "w">>)

\* uniq -d prints the second of adjacent equal lines, and no other of them.
UniqReads ==
  LET n    == Len(passed)
      line == Head(pipe[2])
  IN
  /\ child["uniq"] = "running" /\ pipe[2] # <<>>
  /\ passed' = Append(passed, line)
  /\ pipe' = [pipe EXCEPT ![2] = Tail(@)]
  /\ result' = IF n > 0 /\ passed[n] = line /\ (n > 1 => passed[n - 1] # line)
               THEN Append(result, line) ELSE result
  /\ UNCHANGED <<pc, status, child, out, want, ends, lines>>

UniqEnds ==
  /\ child["uniq"] = "running" /\ pipe[2] = <<>> /\ ~Held(2, "w")
  /\ ChildEnds("uniq", "ok")
  /\ UNCHANGED <<pc, status, out, want, pipe, lines, passed, result>>

Command(c) == StartCommand(c) \/ CommandPrints(c) \/ CommandEnds(c)
Uniq       == StartUniq \/ UniqReads \/ UniqEnds

Next == Parent \/ Signal \/ Uniq \/ \E c \in Commands : Command(c)

\* The system runs every process; a command that can go on does.
Fairness == WF_vars(Parent) /\ WF_vars(Uniq) /\ \A c \in Commands : WF_vars(Command(c))

Spec     == Init /\ [][Next]_vars
FairSpec == Spec /\ Fairness

-----------------------------------------------------------------------------
(* Properties.                                                             *)

Bag(s, l)     == Cardinality({i \in DOMAIN s : s[i] = l})
All           == want["cmd1"] \o want["cmd2"]
Duplicated    == {l \in Lines : Bag(All, l) >= 2}
DifferByCase  == \E i, j \in DOMAIN All : All[i] # All[j] /\ Rank[All[i]] = Rank[All[j]]

(***************************************************************************)
(* Whatever ends, fails or is killed meanwhile: when dsort reports success *)
(* every line it printed was printed twice by the commands; and it printed *)
(* each such line, once and in order, unless lines differ in case only,    *)
(* which str_cmp leaves in any order, so that equal lines may be apart.    *)
(***************************************************************************)
OutputCorrect ==
  status = "success" =>
    /\ Range(result) \subseteq Duplicated
    /\ ~DifferByCase =>
         /\ Range(result) = Duplicated
         /\ \A i \in 1 .. Len(result) - 1 : Rank[result[i]] < Rank[result[i + 1]]

\* dsort ends if what the commands print fits into the pipe: nobody reads it
\* before both have ended.
EndsIfFits == Len(All) <= Capacity => <>(pc = "ended")

(***************************************************************************)
(* No child outlives dsort for ever, whichever error path or signal ended  *)
(* it and wherever the child was: a command that blocks on the full pipe   *)
(* gets SIGPIPE, and uniq the end of its input.                            *)
(***************************************************************************)
ChildrenEnd ==
  pc = "ended" ~> \A c \in Children : child[c] \notin {"forked", "running"}

(***************************************************************************)
(* dsort.sh:3 is what dsort is to do: `( $1; $2 ) | sort | uniq -d', where *)
(* sort reads while the commands write.                                    *)
(***************************************************************************)
EndsLikeScript == <>(pc = "ended")

-----------------------------------------------------------------------------
(* The inductive invariant behind OutputCorrect.                           *)

Places == {"pipe1", "fork1", "fork2", "register", "wait_commands", "read", "pipe2",
           "fork_uniq", "setup_write", "print", "wait_uniq", "ended"}

TypeOK ==
  /\ pc \in Places /\ status \in {"none", "failure", "success"}
  /\ child \in [Children -> {"none", "forked", "running", "ok", "bad", "reaped"}]
  /\ out \in [Commands -> Seq(Lines)] /\ want \in [Commands -> Seq(Lines)]
  /\ pipe \in [{1, 2} -> Seq(Lines)] /\ lines \in Seq(Lines)
  /\ passed \in Seq(Lines) /\ result \in Seq(Lines)

\* Which parts of main are behind a parent that has not failed.
After(places) == pc \in places \/ status = "success"
Printing      == {"setup_write", "print", "wait_uniq"}
Sorting       == {"pipe2", "fork_uniq"} \cup Printing
Reading       == {"read"} \cup Sorting

\* Only a command that has printed all its lines ends well, and the parent
\* goes on only if both did.
CommandsInv ==
  /\ status = "none" <=> pc # "ended"
  /\ After({"fork2", "register", "wait_commands"} \cup Reading) => child["cmd1"] # "none"
  /\ After({"register", "wait_commands"} \cup Reading) => child["cmd2"] # "none"
  /\ \A c \in Commands :
       /\ status # "failure" /\ child[c] \in {"ok", "reaped"} => out[c] = <<>>
       /\ After(Reading) => child[c] = "reaped"
  /\ After(Sorting) => pipe[1] = <<>>

\* uniq ends well only after it has read what the parent has sorted: the
\* parent keeps the write end open until it has printed all of it.
UniqInv ==
  /\ pc \in {"fork_uniq", "setup_write", "print"} => <<"parent", 2, "w">> \in ends
  /\ After(Printing) => child["uniq"] # "none"
  /\ After({"wait_uniq"}) => lines = <<>>
  /\ child["uniq"] = "none" => passed = <<>> /\ pipe[2] = <<>> /\ result = <<>>
  /\ child["uniq"] # "none" => pc \in Printing \cup {"ended"}
  /\ status # "failure" /\ child["uniq"] \in {"ok", "reaped"} =>
       After({"wait_uniq"}) /\ pipe[2] = <<>>
  /\ status = "success" => child["uniq"] = "reaped"

\* No line is lost, invented or printed twice on the way.
LinesKept ==
  \A l \in Lines :
    Bag(All, l) = Bag(out["cmd1"], l) + Bag(out["cmd2"], l) + Bag(pipe[1], l)
                    + Bag(lines, l) + Bag(pipe[2], l) + Bag(passed, l)

\* From qsort on the lines stay in order, wherever they are.
Stream    == (passed \o pipe[2]) \o lines
OrderKept == child["uniq"] # "none" \/ pc \in {"pipe2", "fork_uniq"} => Sorted(Stream)

\* What uniq has printed is what stands twice in a row in what it has read.
Adjacent(s, i) == i \in 1 .. Len(s) - 1 /\ s[i] = s[i + 1]
Repeated(r, s) ==
  /\ \A k \in DOMAIN r : \E i \in DOMAIN s : Adjacent(s, i) /\ s[i] = r[k]
  /\ \A i \in DOMAIN s : Adjacent(s, i) => \E k \in DOMAIN r : r[k] = s[i]
Increasing(s)  == \A k \in 1 .. Len(s) - 1 : Rank[s[k]] < Rank[s[k + 1]]
ResultInv      == Repeated(result, passed) /\ (~DifferByCase => Increasing(result))

IInv == TypeOK /\ CommandsInv /\ UniqInv /\ LinesKept /\ OrderKept /\ ResultInv

=============================================================================
