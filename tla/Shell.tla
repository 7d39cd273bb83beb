------------------------------- MODULE Shell -------------------------------
(***************************************************************************)
(* Two shells: nush of challenge 1 (nush.c, tokens.c, astree.c and         *)
(* implement.c) and xv6's sh.c.  Lines are sequences of symbols: words,    *)
(* operator characters and blanks.  A process has the calls it has yet to  *)
(* return from in todo, as a sequence of instructions, so that fork copies *)
(* them; with an empty todo it is in main's loop.  The kernel's pipes and  *)
(* the programs that are run are external: "true" and "false" only exit,   *)
(* "gen" writes Items items, "wc" reads to the end of its input and writes *)
(* one, every other word cannot be executed.                               *)
(***************************************************************************)
EXTENDS Integers, Sequences, FiniteSets, FiniteSetsExt, SequencesExt, Bags

CONSTANTS
  Scripts,  \* the pairs of a shell and a script that it reads
  MaxProc,  \* bound on the processes of a script
  CAP,      \* items that a pipe holds
  Items     \* items that gen writes

ASSUME ShellAssumption == {MaxProc, CAP, Items} \subseteq Nat \ {0}

VARIABLES
  shell,    \* "nush" or "xv6"
  script,   \* the lines of the script
  proc,     \* processes by number, 1 is the shell
  pipe,     \* items in the pipes, in the order they were made
  ran       \* history: the bag of commands executed, with input and output

shellVars == <<shell, script, proc, pipe, ran>>

Pids == 1..MaxProc
TTY == <<"tty", 0>>
NONE == <<"none", 0>>
Null == [op |-> "null"]
-----------------------------------------------------------------------------
(* tokens.c: adjacent operator characters are one token *)
Ops == {"&", "<", ">", "|", ";"}
OpToken(s) == CASE s = <<"&", "&">> -> "&&"
                [] s = <<"|", "|">> -> "||"
                [] Len(s) = 1 -> s[1]
                [] OTHER -> "word"

(* the length of the run of operator characters at the start of line *)
add_op(line) == Max({n \in 0..Len(line) : \A j \in 1..n : line[j] \in Ops})

(* a word is one symbol *)
add_token(line) == line[1]

tokenize[line \in Seq(STRING)] ==
  IF line = <<>> THEN <<>>
  ELSE IF line[1] = " " THEN tokenize[Tail(line)]
  ELSE IF line[1] \in Ops
    THEN <<OpToken(SubSeq(line, 1, add_op(line)))>> \o tokenize[SubSeq(line, add_op(line) + 1, Len(line))]
  ELSE <<add_token(line)>> \o tokenize[Tail(line)]

(* astree.c: the first operator of the list that occurs splits the line at *)
(* its first place                                                         *)
make_cmd(tokens) == [op |-> "cmd", cmd |-> tokens]
make_op(op, l, r) == [op |-> op, l |-> l, r |-> r]
op_list == <<";", "&", "||", "&&", "|", ">", "<">>
svec_index_of(tokens, op) == Min({j \in 1..Len(tokens) : tokens[j] = op}) - 1
sub_svec(tokens, start, end) == SubSeq(tokens, start + 1, end)

parse[tokens \in Seq(STRING)] ==
  LET found == {k \in 1..Len(op_list) : Contains(tokens, op_list[k])}
      op == op_list[Min(found)]
      j == svec_index_of(tokens, op)
  IN  IF tokens = <<>> THEN Null
      ELSE IF found = {} THEN make_cmd(tokens)
      ELSE make_op(op, parse[sub_svec(tokens, 0, j)], parse[sub_svec(tokens, j + 1, Len(tokens))])

-----------------------------------------------------------------------------
(* sh.c: a parser turns the rest of the line into a tree and a rest *)
Symbols == Ops \cup {"(", ")"}
MAXARGS == 10
skip(s) == SubSeq(s, Min({n \in 1..(Len(s) + 1) : n > Len(s) \/ s[n] # " "}), Len(s))

gettoken(s) ==
  IF s = <<>> THEN [tok |-> "0", q |-> "", s |-> s]
  ELSE IF Len(s) > 1 /\ SubSeq(s, 1, 2) = <<">", ">">>
    THEN [tok |-> "+", q |-> "", s |-> skip(SubSeq(s, 3, Len(s)))]
  ELSE [tok |-> IF s[1] \in Symbols THEN s[1] ELSE "a", q |-> s[1], s |-> skip(Tail(s))]

peek(s, toks) == s # <<>> /\ s[1] \in toks

Panic == [op |-> "panic"]
execcmd(argv) == [op |-> "EXEC", cmd |-> argv]
redircmd(t, file, fd) == [op |-> "REDIR", l |-> t, file |-> file, fd |-> fd]
pipecmd(l, r) == [op |-> "PIPE", l |-> l, r |-> r]
listcmd(l, r) == [op |-> "LIST", l |-> l, r |-> r]
backcmd(t) == [op |-> "BACK", l |-> t]

(* panic ends the parse: nothing is left of the line *)
Failed == [t |-> Panic, s |-> <<>>]

(* The redirections from here on, innermost first.  A redirection of a     *)
(* simple command is made before its arguments are complete, hence the     *)
(* list in place of a tree.                                                *)
parseredirs[s \in Seq(STRING)] ==
  LET a == gettoken(s)
      b == gettoken(a.s)
  IN  IF ~peek(s, {"<", ">"}) THEN [ok |-> TRUE, rs |-> <<>>, s |-> s]
      ELSE IF b.tok # "a" THEN [ok |-> FALSE, rs |-> <<>>, s |-> <<>>]
      ELSE [parseredirs[b.s] EXCEPT !.rs = <<[file |-> b.q, fd |-> IF a.tok = "<" THEN 0 ELSE 1]>> \o @]

Redirected(t, rs) == FoldLeft(LAMBDA u, r : redircmd(u, r.file, r.fd), t, rs)

Parsed == [argv : Seq(STRING), rs : Seq([file : STRING, fd : 0..1]), s : Seq(STRING)]

(* the words of a simple command and its redirections, from x.s on *)
arguments[x \in Parsed] ==
  LET a == gettoken(x.s)
      r == parseredirs[a.s]
  IN  IF peek(x.s, {"|", ")", "&", ";"}) \/ a.tok = "0" THEN [t |-> Redirected(execcmd(x.argv), x.rs), s |-> x.s]
      ELSE IF a.tok # "a" \/ Len(x.argv) + 1 >= MAXARGS \/ ~r.ok THEN Failed
      ELSE arguments[[argv |-> Append(x.argv, a.q), rs |-> x.rs \o r.rs, s |-> r.s]]

(* The rules of the grammar, which call each other through rule *)
parseblock(rule, s) ==
  LET b == rule[<<"line", gettoken(s).s>>]
      r == parseredirs[gettoken(b.s).s]
  IN  IF ~peek(b.s, {")"}) \/ ~r.ok THEN Failed ELSE [t |-> Redirected(b.t, r.rs), s |-> r.s]

parseexec(rule, s) ==
  LET r == parseredirs[s]
  IN  IF peek(s, {"("}) THEN rule[<<"block", s>>]
      ELSE IF ~r.ok THEN Failed
      ELSE arguments[[argv |-> <<>>, rs |-> r.rs, s |-> r.s]]

parsepipe(rule, s) ==
  LET l == rule[<<"exec", s>>]
      r == rule[<<"pipe", gettoken(l.s).s>>]
  IN  IF l.t.op = "panic" \/ ~peek(l.s, {"|"}) THEN l
      ELSE IF r.t.op = "panic" THEN Failed
      ELSE [t |-> pipecmd(l.t, r.t), s |-> r.s]

(* every & wraps what is before it *)
parseline(rule, s) ==
  LET l == rule[<<"pipe", s>>]
      n == Min({k \in 0..Len(l.s) : k = Len(l.s) \/ l.s[k + 1] \notin {"&", " "}})
      t == FoldLeft(LAMBDA u, c : IF c = "&" THEN backcmd(u) ELSE u, l.t, SubSeq(l.s, 1, n))
      rest == SubSeq(l.s, n + 1, Len(l.s))
      r == rule[<<"line", gettoken(rest).s>>]
  IN  IF l.t.op = "panic" THEN Failed
      ELSE IF ~peek(rest, {";"}) THEN [t |-> t, s |-> rest]
      ELSE IF r.t.op = "panic" THEN Failed
      ELSE [t |-> listcmd(t, r.t), s |-> r.s]

grammar[x \in {"line", "pipe", "exec", "block"} \X Seq(STRING)] ==
  CASE x[1] = "line" -> parseline(grammar, x[2])
    [] x[1] = "pipe" -> parsepipe(grammar, x[2])
    [] x[1] = "exec" -> parseexec(grammar, x[2])
    [] x[1] = "block" -> parseblock(grammar, x[2])

parsecmd(line) ==
  LET l == grammar[<<"line", skip(line)>>]
  IN  IF l.s # <<>> THEN Panic ELSE l.t

(* the lines of the scripts, parsed by either shell *)
Lines == UNION {Range(x[2]) : x \in Scripts}
NushTree == [line \in Lines |-> parse[tokenize[line]]]
Xv6Tree == [line \in Lines |-> parsecmd(line)]

-----------------------------------------------------------------------------
(* Processes.  up is the parent, 0 for init; in and out are what 0 and 1   *)
(* refer to, aux the other ends of pipes that are open; rv is what the     *)
(* last call returned, or the status a process exited with; line is the    *)
(* next line, which nush's children inherit with the buffer of the script. *)
Unused == [st |-> "unused", up |-> 0, todo |-> <<>>, rv |-> 0, line |-> 1, in |-> NONE, out |-> NONE, aux |-> {}]

ShellInit ==
  /\ \E x \in Scripts : shell = x[1] /\ script = x[2]
  /\ proc = [p \in Pids |-> IF p = 1 THEN [Unused EXCEPT !.st = "run", !.in = TTY, !.out = TTY] ELSE Unused]
  /\ pipe = <<>> /\ ran = EmptyBag

Runs(p) == proc[p].st = "run"
NewPid == Min({p \in Pids : proc[p].st = "unused"})
Ends(p) == {proc[p].in, proc[p].out} \cup proc[p].aux
Open(end) == \E p \in Pids : end \in Ends(p)

(* p calls f at the head of what it has to do *)
At(p, f) == Runs(p) /\ proc[p].todo # <<>> /\ Head(proc[p].todo).f = f
Arg(p) == Head(proc[p].todo)
Rest(p) == Tail(proc[p].todo)
Call(f, t) == [f |-> f, t |-> t]
Do(f) == [f |-> f]

(* p goes on with todo, and returns rv *)
Returns(p, rv, todo) == proc' = [proc EXCEPT ![p].todo = todo, ![p].rv = rv]
Goes(p, todo) == Returns(p, proc[p].rv, todo)

(* fork: the parent goes on with mine, the child with its *)
fork(p, mine, its) ==
  proc' = [proc EXCEPT ![p].todo = mine, ![NewPid] = [proc[p] EXCEPT !.up = p, !.todo = its]]

(* exit: the children go to init, which reaps them *)
exit(p, rv) ==
  proc' = [q \in Pids |->
    IF q = p THEN [Unused EXCEPT !.st = IF proc[p].up = 0 THEN "dead" ELSE "zombie", !.up = proc[p].up, !.rv = rv]
    ELSE IF proc[q].up # p \/ proc[q].st \in {"unused", "dead"} THEN proc[q]
    ELSE [proc[q] EXCEPT !.up = 0, !.st = IF @ = "zombie" THEN "dead" ELSE @]]

-----------------------------------------------------------------------------
(* implement.c.  The pid of the child is in its wait instruction. *)
Wait(q, keep) == [f |-> "waitpid", q |-> q, keep |-> keep]
Skip == UNCHANGED <<shell, script, pipe, ran>>

(* the second shell of a redirection may wait for a child of the first, to *)
(* no avail                                                                *)
waitpid(p) ==
  /\ At(p, "waitpid")
  /\ LET q == Arg(p).q
     IN  IF proc[q].up # p THEN Goes(p, Rest(p))
         ELSE /\ proc[q].st = "zombie"
              /\ proc' = [proc EXCEPT ![q].st = "dead", ![p].todo = Rest(p),
                                      ![p].rv = IF Arg(p).keep THEN proc[q].rv ELSE @]
  /\ Skip

(* execute of a command: cd and exit are the shell's; there is no "nowhere" *)
execute_cmd(p) ==
  /\ At(p, "execute") /\ Arg(p).t.op = "cmd"
  /\ LET cmd == Arg(p).t.cmd
     IN  CASE cmd[1] = "cd" -> Returns(p, IF cmd[2] = "nowhere" THEN -1 ELSE 0, Rest(p))
           [] cmd[1] = "exit" -> exit(p, 0)
           [] OTHER -> fork(p, <<Wait(NewPid, TRUE)>> \o Rest(p), <<[f |-> "execvp", cmd |-> cmd]>>)
  /\ Skip

IsOp(p, op) == At(p, "execute") /\ Arg(p).t.op = op
L(p) == Call("execute", Arg(p).t.l)
R(p) == Call("execute", Arg(p).t.r)
There(t) == t.op # "null"

execute(p) == IsOp(p, "null") /\ Returns(p, 0, Rest(p)) /\ Skip

semicolon_cmd(p) ==
  /\ IsOp(p, ";")
  /\ Goes(p, <<L(p)>> \o (IF There(Arg(p).t.r) THEN <<R(p)>> ELSE <<>>) \o Rest(p))
  /\ Skip

background_cmd(p) ==
  /\ IsOp(p, "&")
  /\ fork(p, <<IF There(Arg(p).t.r) THEN R(p) ELSE Call("execute", Null)>> \o Rest(p),
             <<L(p), Do("_exit")>>)
  /\ Skip

(* && and || look at what the first command returned *)
or_cmd(p) ==
  \/ IsOp(p, "||") /\ Goes(p, <<L(p), Call("or", Arg(p).t.r)>> \o Rest(p)) /\ Skip
  \/ /\ At(p, "or")
     /\ Goes(p, IF proc[p].rv = 1 THEN <<Call("execute", Arg(p).t)>> \o Rest(p) ELSE Rest(p))
     /\ Skip

and_cmdMutant(p) ==
  \/ IsOp(p, "&&") /\ Goes(p, <<L(p), Call("and", Arg(p).t.r)>> \o Rest(p)) /\ Skip
  \/ At(p, "and") /\ Goes(p, <<Call("execute", Arg(p).t)>> \o Rest(p)) /\ Skip

and_cmd(p) ==
  \/ IsOp(p, "&&") /\ Goes(p, <<L(p), Call("and", Arg(p).t.r)>> \o Rest(p)) /\ Skip
  \/ /\ At(p, "and")
     /\ Goes(p, IF proc[p].rv = 0 THEN <<Call("execute", Arg(p).t)>> \o Rest(p) ELSE Rest(p))
     /\ Skip

(* A child makes the pipe and forks: it runs the right side itself and     *)
(* waits for the left one with the reading end still open as its input.    *)
pipe_cmdUnclosed(p) ==
  \/ /\ IsOp(p, "|")
     /\ fork(p, <<Wait(NewPid, TRUE)>> \o Rest(p), <<Call("pipe", Arg(p).t)>>)
     /\ Skip
  \/ /\ At(p, "pipe")
     /\ LET k == Len(pipe) + 1
        IN  proc' = [proc EXCEPT
              ![p].in = <<"r", k>>, ![p].aux = {<<"w", k>>},
              ![p].todo = <<R(p), Wait(NewPid, FALSE), Do("exit")>>,
              ![NewPid] = [proc[p] EXCEPT !.up = p, !.out = <<"w", k>>, !.todo = <<L(p), Do("exit")>>]]
     /\ pipe' = Append(pipe, 0)
     /\ UNCHANGED <<shell, script, ran>>

pipe_cmdUnwaited(p) ==
  \/ /\ IsOp(p, "|")
     /\ fork(p, <<Wait(NewPid, TRUE)>> \o Rest(p), <<Call("pipe", Arg(p).t)>>)
     /\ Skip
  \/ /\ At(p, "pipe")
     /\ LET k == Len(pipe) + 1
        IN  proc' = [proc EXCEPT
              ![p].in = <<"r", k>>,
              ![p].todo = <<R(p), Do("exit")>>,
              ![NewPid] = [proc[p] EXCEPT !.up = p, !.out = <<"w", k>>, !.todo = <<L(p), Do("exit")>>]]
     /\ pipe' = Append(pipe, 0)
     /\ UNCHANGED <<shell, script, ran>>

(* A child makes the pipe and forks: it runs the right side itself and     *)
(* waits for the left one with the reading end still open as its input.    *)
pipe_cmd(p) ==
  \/ /\ IsOp(p, "|")
     /\ fork(p, <<Wait(NewPid, TRUE)>> \o Rest(p), <<Call("pipe", Arg(p).t)>>)
     /\ Skip
  \/ /\ At(p, "pipe")
     /\ LET k == Len(pipe) + 1
        IN  proc' = [proc EXCEPT
              ![p].in = <<"r", k>>,
              ![p].todo = <<R(p), Wait(NewPid, FALSE), Do("exit")>>,
              ![NewPid] = [proc[p] EXCEPT !.up = p, !.out = <<"w", k>>, !.todo = <<L(p), Do("exit")>>]]
     /\ pipe' = Append(pipe, 0)
     /\ UNCHANGED <<shell, script, ran>>

(* The file is named by a plain command, anything else ends the child with *)
(* a signal, whose exit status is 0.  Bound: there is no file "missing".   *)
Opens(p, f, then) ==
  IF Arg(p).t.r.op = "cmd" THEN <<[f |-> f, file |-> Arg(p).t.r.cmd[1]]>> \o then ELSE <<Do("_exit")>>
Opened(file) == IF file = "missing" THEN NONE ELSE <<"file", file>>

rdr_in_cmdMutant(p) ==
  \/ /\ IsOp(p, "<")
     /\ fork(p, <<Wait(NewPid, TRUE)>> \o Rest(p), Opens(p, "open", <<L(p)>> \o Rest(p)))
     /\ Skip
  \/ /\ At(p, "open")
     /\ proc' = [proc EXCEPT ![p].in = Opened(Arg(p).file), ![p].todo = Rest(p)]
     /\ Skip

rdr_in_cmd(p) ==
  \/ /\ IsOp(p, "<")
     /\ fork(p, <<Wait(NewPid, TRUE)>> \o Rest(p), Opens(p, "open", <<L(p), Do("exit")>>))
     /\ Skip
  \/ /\ At(p, "open")
     /\ proc' = [proc EXCEPT ![p].in = Opened(Arg(p).file), ![p].todo = Rest(p)]
     /\ Skip

(* the child of a redirection to a file returns from its call as well *)
rdr_out_cmd(p) ==
  \/ /\ IsOp(p, ">")
     /\ fork(p, <<Wait(NewPid, TRUE)>> \o Rest(p),
                Opens(p, "creat", <<L(p), Call("execute", Null)>> \o Rest(p)))
     /\ Skip
  \/ /\ At(p, "creat")
     /\ proc' = [proc EXCEPT ![p].out = <<"file", Arg(p).file>>, ![p].todo = Rest(p)]
     /\ Skip

(* the ends of a process: exit in main's loop and in children *)
Exits(p) ==
  \/ At(p, "exit") /\ exit(p, proc[p].rv % 256) /\ Skip
  \/ At(p, "_exit") /\ exit(p, 0) /\ Skip

main_helper(p) ==
  /\ shell = "nush" /\ Runs(p) /\ proc[p].todo = <<>>
  /\ IF proc[p].line > Len(script) THEN exit(p, 0)
     ELSE proc' = [proc EXCEPT ![p].line = @ + 1,
                               ![p].todo = <<Call("execute", NushTree[script[proc[p].line]])>>]
  /\ Skip

-----------------------------------------------------------------------------
(* sh.c; there are processes enough, so that fork1 does not panic *)
fork1(p, mine, its) == fork(p, mine, its)

runcmd(p) ==
  /\ At(p, "runcmd")
  /\ LET t == Arg(p).t
     IN  CASE t.op = "EXEC" /\ t.cmd # <<>> -> Goes(p, <<[f |-> "execvp", cmd |-> t.cmd]>>)
           [] t.op = "REDIR" /\ (t.fd = 1 \/ t.file # "missing") ->
                proc' = [proc EXCEPT ![p].todo = <<Call("runcmd", t.l)>>,
                                     ![p].in = IF t.fd = 0 THEN Opened(t.file) ELSE @,
                                     ![p].out = IF t.fd = 1 THEN <<"file", t.file>> ELSE @]
           [] t.op = "LIST" -> fork1(p, <<Do("wait"), Call("runcmd", t.r)>>, <<Call("runcmd", t.l)>>)
           [] t.op = "BACK" -> fork1(p, <<Do("exit")>>, <<Call("runcmd", t.l)>>)
           [] t.op = "PIPE" ->
                proc' = [proc EXCEPT
                  ![p].aux = {<<"r", Len(pipe) + 1>>, <<"w", Len(pipe) + 1>>},
                  ![p].todo = <<Call("left", t.l), Call("right", t.r), Do("close"), Do("wait"), Do("wait"), Do("exit")>>]
           [] OTHER -> exit(p, 0)
  /\ pipe' = IF Arg(p).t.op = "PIPE" THEN Append(pipe, 0) ELSE pipe
  /\ UNCHANGED <<shell, script, ran>>

(* the two children of a pipe *)
PipeSide(p) ==
  /\ At(p, "left") \/ At(p, "right")
  /\ LET end(c) == CHOOSE e \in proc[p].aux : e[1] = c
         child == [proc[p] EXCEPT !.up = p, !.aux = {}, !.todo = <<Call("runcmd", Arg(p).t)>>]
     IN  proc' = [proc EXCEPT ![p].todo = Rest(p),
                   ![NewPid] = IF At(p, "left") THEN [child EXCEPT !.out = end("w")]
                                                ELSE [child EXCEPT !.in = end("r")]]
  /\ Skip

Close(p) ==
  /\ At(p, "close")
  /\ proc' = [proc EXCEPT ![p].aux = {}, ![p].todo = Rest(p)]
  /\ Skip

(* wait for any child *)
wait(p) ==
  /\ At(p, "wait")
  /\ \E q \in Pids : /\ proc[q].up = p /\ proc[q].st = "zombie"
                     /\ proc' = [proc EXCEPT ![q].st = "dead", ![p].todo = Rest(p)]
  /\ Skip

(* the next line is there; a line is read whole by the shell that forks *)
getcmd(p) == proc[p].line <= Len(script)

sh_main(p) ==
  /\ shell = "xv6" /\ Runs(p) /\ proc[p].todo = <<>>
  /\ LET line == script[proc[p].line]
     IN  IF ~getcmd(p) THEN exit(p, 0)
         ELSE IF line[1] = "cd" THEN proc' = [proc EXCEPT ![p].line = @ + 1]
         ELSE proc' = [proc EXCEPT ![p].line = @ + 1, ![p].todo = <<Do("wait")>>,
                         ![NewPid] = [proc[p] EXCEPT !.up = p, !.todo = <<Call("runcmd", Xv6Tree[line])>>]]
  /\ Skip

-----------------------------------------------------------------------------
(* the programs and the kernel *)
Programs == {"true", "false", "gen", "wc"}
Kind(o) == CASE o[1] \in {"r", "w"} -> "pipe" [] o[1] = "file" -> o[2] [] OTHER -> o[1]
Code(cmd) == CASE cmd = "gen" -> [k \in 1..Items |-> Do("write")]
               [] cmd = "wc" -> <<Do("read"), Do("write")>>
               [] OTHER -> <<>>

execvp(p) ==
  /\ At(p, "execvp")
  /\ LET cmd == Arg(p).cmd[1]
     IN  IF cmd \in Programs
           THEN /\ Returns(p, IF cmd = "false" THEN 1 ELSE 0, Code(cmd) \o <<Do("exit")>>)
                /\ ran' = ran (+) SetToBag({<<cmd, Kind(proc[p].in), Kind(proc[p].out)>>})
           ELSE exit(p, 1) /\ UNCHANGED ran
  /\ UNCHANGED <<shell, script, pipe>>

PipeFull(p) == proc[p].out[1] = "w" /\ pipe[proc[p].out[2]] = CAP

(* without a reader the writer gets a signal, or -1 from xv6, of which the *)
(* program takes no notice                                                 *)
write(p) ==
  /\ At(p, "write")
  /\ LET k == proc[p].out[2]
     IN  IF proc[p].out[1] # "w" THEN Goes(p, Rest(p)) /\ UNCHANGED pipe
         ELSE IF ~Open(<<"r", k>>)
           THEN (IF shell = "nush" THEN exit(p, 0) ELSE Goes(p, Rest(p))) /\ UNCHANGED pipe
         ELSE ~PipeFull(p) /\ Goes(p, Rest(p)) /\ pipe' = [pipe EXCEPT ![k] = @ + 1]
  /\ UNCHANGED <<shell, script, ran>>

read(p) ==
  /\ At(p, "read")
  /\ LET k == proc[p].in[2]
     IN  IF proc[p].in[1] # "r" THEN Goes(p, Rest(p)) /\ UNCHANGED pipe
         ELSE IF pipe[k] > 0 THEN pipe' = [pipe EXCEPT ![k] = @ - 1] /\ UNCHANGED proc
         ELSE ~Open(<<"w", k>>) /\ Goes(p, Rest(p)) /\ UNCHANGED pipe
  /\ UNCHANGED <<shell, script, ran>>

ShellStep(p) ==
  \/ main_helper(p) \/ execute(p) \/ execute_cmd(p) \/ semicolon_cmd(p) \/ background_cmd(p)
  \/ or_cmd(p) \/ and_cmd(p) \/ pipe_cmd(p) \/ rdr_in_cmd(p) \/ rdr_out_cmd(p) \/ waitpid(p)
  \/ sh_main(p) \/ runcmd(p) \/ PipeSide(p) \/ Close(p) \/ wait(p)
  \/ Exits(p) \/ execvp(p) \/ write(p) \/ read(p)

ShellNext == \E p \in Pids : ShellStep(p)

(* the kernel runs every process that can run *)
ShellFairness == \A p \in Pids : WF_shellVars(ShellStep(p))
ShellSpec == ShellInit /\ [][ShellNext]_shellVars /\ ShellFairness

-----------------------------------------------------------------------------
ShellTypeOK ==
  /\ shell \in {"nush", "xv6"}
  /\ \A p \in Pids : /\ proc[p].st \in {"unused", "run", "zombie", "dead"}
                     /\ proc[p].up \in 0..MaxProc /\ proc[p].rv \in -1..255
                     /\ proc[p].line \in 1..(Len(script) + 1)
  /\ \A k \in 1..Len(pipe) : pipe[k] \in 0..CAP

(* A process waits for a child of its own that is there to be reaped, and  *)
(* nobody but the first shell gets back to main's loop and reads the       *)
(* script; the exception to both are children of a redirection to a file.  *)
Redirects(p) == proc[p].out[1] = "file"
ShellInv ==
  /\ ShellTypeOK
  /\ \A p \in Pids : At(p, "waitpid") /\ ~Redirects(p) =>
       proc[Arg(p).q].up = p /\ proc[Arg(p).q].st \in {"run", "zombie"}
  /\ \A p \in Pids : Runs(p) /\ proc[p].todo = <<>> => p = 1 \/ Redirects(p)

Done == \A p \in Pids : proc[p].st \in {"unused", "dead"}
Tokens == [line \in Lines |-> tokenize[line]]
Uses(token) == \E n \in 1..Len(script) : Contains(IF shell = "nush" THEN Tokens[script[n]] ELSE script[n], token)

(* What a line means by the comments of implement.c: the commands it runs  *)
(* with input i and output o, what it returns, and whether it ends the     *)
(* shell.  A good exit code is 0, and || skips its right side after a good *)
(* one; > sends the output of its left side to a file, and that is all.    *)
Result(b, rv, ex) == [b |-> b, rv |-> rv, ex |-> ex]
RECURSIVE Meant(_, _, _)
Meant(t, i, o) ==
  LET In(u) == Meant(u, i, o)
      Child(m) == [m EXCEPT !.ex = FALSE]
      Both(m, n) == [n EXCEPT !.b = m.b (+) @]
      After(m, u) == IF m.ex THEN m ELSE Both(m, In(u))
      Piped == Child(Both(Meant(t.l, i, "pipe"), Meant(t.r, "pipe", o)))
      Ran(argv) == IF argv[1] \in Programs
                     THEN Result(SetToBag({<<argv[1], i, o>>}), IF argv[1] = "false" THEN 1 ELSE 0, FALSE)
                     ELSE Result(EmptyBag, 1, FALSE)
      Nothing == Result(EmptyBag, 0, FALSE)
  IN  CASE t.op = "cmd" -> CASE t.cmd[1] = "cd" -> Result(EmptyBag, IF t.cmd[2] = "nowhere" THEN -1 ELSE 0, FALSE)
                             [] t.cmd[1] = "exit" -> Result(EmptyBag, 0, TRUE)
                             [] OTHER -> Ran(t.cmd)
        [] t.op = ";" -> IF There(t.r) THEN After(In(t.l), t.r) ELSE In(t.l)
        [] t.op = "&" -> Both(In(t.l), In(t.r))
        [] t.op = "||" -> IF In(t.l).rv # 0 THEN After(In(t.l), t.r) ELSE In(t.l)
        [] t.op = "&&" -> IF In(t.l).rv = 0 THEN After(In(t.l), t.r) ELSE In(t.l)
        [] t.op \in {"|", "PIPE"} -> Piped
        [] t.op = "<" -> IF t.r.op = "cmd" THEN Child(Meant(t.l, Kind(Opened(t.r.cmd[1])), o)) ELSE Nothing
        [] t.op = ">" -> IF t.r.op = "cmd" THEN Child(Meant(t.l, i, t.r.cmd[1])) ELSE Nothing
        [] t.op = "EXEC" -> IF t.cmd = <<>> THEN Nothing ELSE Ran(t.cmd)
        [] t.op = "REDIR" -> CASE t.fd = 1 -> Meant(t.l, i, t.file)
                               [] t.file = "missing" -> Nothing
                               [] OTHER -> Meant(t.l, t.file, o)
        [] t.op = "LIST" -> Both(In(t.l), In(t.r))
        [] t.op = "BACK" -> In(t.l)
        [] OTHER -> Nothing

MeantLine(line) ==
  IF shell = "nush" THEN Meant(NushTree[line], "tty", "tty")
  ELSE IF line[1] = "cd" THEN Result(EmptyBag, 0, FALSE)
  ELSE Meant(Xv6Tree[line], "tty", "tty")

(* However its processes interleave, a script has run the commands that it *)
(* means, each as often as it says and with the input and the output it    *)
(* says: "if it completes with a good exitcode, dont run the second", and  *)
(* what comes after a redirection is run once.                             *)
AsMeant ==
  Done => ran = FoldLeft(LAMBDA m, line : IF m.ex THEN m ELSE [MeantLine(line) EXCEPT !.b = m.b (+) @],
                         Result(EmptyBag, 0, FALSE), script).b

(* Every script does so that sends nothing to a file and has no || after a *)
(* cd that fails in nush, and every script of xv6's shell.                 *)
RunsAsMeant == (shell = "nush" => ~Uses(">") /\ ~(Uses("||") /\ Uses("nowhere"))) => AsMeant

(* When a shell reads the next line of a script without &, no process of   *)
(* the lines before is left: each operator has waited for all it started.  *)
Settled ==
  Runs(1) /\ proc[1].todo = <<>> /\ ~Uses("&") => \A p \in Pids \ {1} : ~Runs(p)

(* A left side that fills the pipe of nush when the right side has ended   *)
(* waits for the shell that has kept the reading end and waits for it.     *)
Stuck ==
  /\ shell = "nush"
  /\ \E p \in Pids : /\ At(p, "write") /\ PipeFull(p)
                     /\ \A q \in Pids : <<"r", proc[p].out[2]>> \in Ends(q) => At(q, "waitpid")

(* A script comes to its end, or to that one place. *)
ScriptEnds == <>[](Done \/ Stuck)
=============================================================================
