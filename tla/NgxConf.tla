------------------------------ MODULE NgxConf -------------------------------
(***************************************************************************)
(* The configuration file (ngx_conf_file.c, and ngx_events_block): the       *)
(* reader that cuts the text into words through a buffer which is refilled   *)
(* in the middle of a word, the look-up of a directive, and ngx_conf_parse,  *)
(* which calls itself for a block and for an included file.                  *)
(***************************************************************************)
EXTENDS Integers, Sequences, FiniteSets, SequencesExt

CONSTANTS
    CfAlphabets,    \* sets of characters a text may be made of
    CfSizes,        \* sizes of a file
    CfBuffer,       \* NGX_CONF_BUFFER
    CfCommands,     \* the directives
    CfMaxDepth      \* bound: files and blocks inside one another

VARIABLE cf
cfvars == cf

(* The characters: "sp" stands for blank, tab and CR; "any" is one nobody has *)
(* looked at yet.                                                             *)
Blank == {"sp", "lf"}
Unseen(n) == [i \in 1..n |-> "any"]

(* The local variables of ngx_conf_read_token, which begins at "pos". *)
NewToken(pos) ==
    [start |-> pos, args |-> <<>>, need |-> FALSE, space |-> TRUE, sharp |-> FALSE,
     var |-> FALSE, quoted |-> FALSE, sq |-> FALSE, dq |-> FALSE,
     raw |-> <<>>]          \* what was read of the text since it began
(* An open file: how much of it is still to be read, the buffer, b->pos. *)
NewFile(n) == [left |-> n, buf |-> <<>>, pos |-> 1]
FileFrame(more) == [kind |-> "file", more |-> more]

CfInit ==
    \E a \in CfAlphabets : \E n \in CfSizes :
        \/ cf = [alphabet |-> a, files |-> <<NewFile(n)>>, frames |-> <<FileFrame(0)>>,
                 ctx |-> <<{}>>, tok |-> NewToken(1), res |-> "parsing",
                 last |-> <<>>, cut |-> FALSE]
        \/ cf = [alphabet |-> a, files |-> <<[left |-> 0, buf |-> Unseen(n), pos |-> 1]>>,
                 frames |-> <<[kind |-> "param", more |-> 0]>>,         \* ngx_conf_param
                 ctx |-> <<{}>>, tok |-> NewToken(1), res |-> "parsing",
                 last |-> <<>>, cut |-> FALSE]

File == cf.files[Len(cf.files)]
Frame == cf.frames[Len(cf.frames)]
Pop(s) == SubSeq(s, 1, Len(s) - 1)
ParseFails(st) == [st EXCEPT !.res = "error", !.files = <<>>, !.frames = <<>>, !.ctx = <<>>,
                         !.tok = NewToken(1), !.last = <<>>]

-----------------------------------------------------------------------------
(* The escapes of a finished word. *)
Escaped(c) == IF c = "n" THEN <<"lf">> ELSE IF c \in {"bs", "dq", "sq"} THEN <<c>> ELSE <<"bs", c>>
Unescape(u, c) ==
    IF u.esc THEN [word |-> u.word \o Escaped(c), esc |-> FALSE]
    ELSE IF c = "bs" THEN [u EXCEPT !.esc = TRUE]
    ELSE [u EXCEPT !.word = Append(@, c)]
WordOf(raw) == FoldLeft(Unescape, [word |-> <<>>, esc |-> FALSE], raw).word

(* One character of ngx_conf_read_token: the new local variables, and "more"  *)
(* or what is returned.  "pos" is b->pos, already past the character.         *)
More(t) == [tok |-> t, rc |-> "more"]
Return(t, rc) == [tok |-> t, rc |-> rc]
Gap(t, ch, pos) ==
    LET s == [t EXCEPT !.start = pos - 1, !.space = FALSE] IN
    CASE ch \in Blank -> More(t)
      [] ch \in {";", "{"} ->
            Return(t, IF t.args = <<>> THEN "error" ELSE IF ch = "{" THEN "block" ELSE "ok")
      [] ch = "}" -> Return(t, IF t.args # <<>> THEN "error" ELSE "done")
      [] ch = "#" -> More([t EXCEPT !.start = pos - 1, !.sharp = TRUE])
      [] ch = "bs" -> More([s EXCEPT !.quoted = TRUE])
      [] ch = "dq" -> More([s EXCEPT !.start = pos, !.dq = TRUE])
      [] ch = "sq" -> More([s EXCEPT !.start = pos, !.sq = TRUE])
      [] OTHER -> More(s)
Pushed(t, buf, pos) == [t EXCEPT !.args = Append(@, WordOf(SubSeq(buf, t.start, pos - 2)))]
FaultEnds(t, ch) == ch \in Blank \cup {";"}
Ends(t, ch) == ch \in Blank \cup {";", "{"}
InWord(t0, ch, buf, pos) ==
    LET t == [t0 EXCEPT !.var = FALSE] IN
    CASE ch = "{" /\ t0.var -> More(t0)
      [] ch = "bs" -> More([t EXCEPT !.quoted = TRUE])
      [] ch = "$" -> More([t EXCEPT !.var = TRUE])
      [] OTHER ->
            IF t.dq \/ t.sq
            THEN IF ch = (IF t.dq THEN "dq" ELSE "sq")
                 THEN More([Pushed(t, buf, pos) EXCEPT !.dq = FALSE, !.sq = FALSE, !.need = TRUE])
                 ELSE More(t)
            ELSE IF ~Ends(t, ch) THEN More(t)
            ELSE Return([Pushed(t, buf, pos) EXCEPT !.space = TRUE],
                        CASE ch = ";" -> "ok" [] ch = "{" -> "block" [] OTHER -> "more")
FaultAfterQuote(t, ch, pos) == Gap([t EXCEPT !.space = TRUE, !.need = FALSE], ch, pos)
AfterQuote(t, ch, pos) ==
    CASE ch \in Blank -> More([t EXCEPT !.space = TRUE, !.need = FALSE])
      [] ch = ";" -> Return(t, "ok")
      [] ch = "{" -> Return(t, "block")
      [] ch = ")" -> Gap([t EXCEPT !.space = TRUE, !.need = FALSE], ch, pos)
      [] OTHER -> Return(t, "error")
Step(t0, ch, buf, pos) ==
    LET t == [t0 EXCEPT !.raw = Append(@, ch)] IN
    IF t.sharp THEN More([t EXCEPT !.sharp = ch # "lf"])
    ELSE IF t.quoted THEN More([t EXCEPT !.quoted = FALSE])
    ELSE IF t.need THEN AfterQuote(t, ch, pos)
    ELSE IF t.space THEN Gap(t, ch, pos)
    ELSE InWord(t, ch, buf, pos)

-----------------------------------------------------------------------------
(* ngx_conf_handler: the directive, its place, its end and its arguments; and *)
(* what the directives of the table do: a slot that may be set once, with a   *)
(* value that must not be empty; a block; an include of several files.        *)
Here == IF Len(cf.ctx) = 1 THEN "main" ELSE "inner"
Command(name) == {c \in CfCommands : c.name = name /\ Here \in c.where}
SetSlot(st, c, args) ==
    IF c.name \in st.ctx[Len(st.ctx)] \/ args[2] = <<>> THEN {ParseFails(st)}
    ELSE {[st EXCEPT !.ctx[Len(st.ctx)] = @ \cup {c.name}]}
SetArray(st) == {st}
EventsBlock(st) ==
    IF Len(st.frames) = CfMaxDepth THEN {}
    ELSE {[st EXCEPT !.frames = Append(@, [kind |-> "block", more |-> 0]), !.ctx = Append(@, {})]}
OpenConf(st, frame) ==
    {ParseFails(st)} \cup {[st EXCEPT !.files = Append(@, NewFile(n)), !.frames = Append(@, frame),
                                  !.tok = NewToken(1)] : n \in CfSizes}
Include(st) ==
    {st} \cup (IF Len(st.frames) = CfMaxDepth THEN {}
               ELSE UNION {OpenConf(st, FileFrame(more)) : more \in {0, 1}})
Handler(st, rc, args) ==
    UNION {IF c.block # (rc = "block") \/ Len(args) - 1 \notin c.nargs THEN {ParseFails(st)}
           ELSE CASE c.kind = "slot" -> SetSlot(st, c, args)
                  [] c.kind = "array" -> SetArray(st)
                  [] c.kind = "block" -> EventsBlock(st)
                  [] c.kind = "include" -> Include(st)
           : c \in Command(args[1])}
        \cup (IF Command(args[1]) = {} THEN {ParseFails(st)} ELSE {})

(* The end of ngx_conf_parse: of a block, or of a file, after which the       *)
(* include goes on with the next one.                                         *)
NextToken(st) == [st EXCEPT !.tok = NewToken(st.files[Len(st.files)].pos)]
LeaveBlock(st) == {NextToken([st EXCEPT !.frames = Pop(@), !.ctx = Pop(@)])}
Unread(f) == f.left > 0 \/ f.pos <= Len(f.buf)
LeaveFile(st) ==
    LET f == st.files[Len(st.files)]
        out == [st EXCEPT !.files = Pop(@), !.frames = Pop(@), !.cut = @ \/ Unread(f)] IN
    IF Len(st.frames) = 1 THEN {[st EXCEPT !.res = "ok", !.cut = @ \/ Unread(f)]}
    ELSE IF st.frames[Len(st.frames)].more > 0 THEN OpenConf(out, FileFrame(0))
    ELSE {NextToken(out)}

(* What ngx_conf_parse does with what ngx_conf_read_token returned. *)
FaultBlockDone(st) == IF Frame.kind = "block" THEN LeaveBlock(st) ELSE LeaveFile(st)
BlockDone(st) == IF Frame.kind # "block" THEN {ParseFails(st)} ELSE LeaveBlock(st)
FileDone(st) == IF Frame.kind = "block" THEN {ParseFails(st)} ELSE LeaveFile(st)
Parsed(st, rc) ==
    LET seen == [st EXCEPT !.last = [args |-> st.tok.args, raw |-> st.tok.raw]] IN
    CASE rc = "error" -> {ParseFails(st)}
      [] rc = "done" -> BlockDone(st)
      [] rc = "block" /\ Frame.kind = "param" -> {ParseFails(st)}
      [] OTHER -> Handler(NextToken(seen), rc, st.tok.args)

-----------------------------------------------------------------------------
(* A character from the buffer. *)
GetChar ==
    /\ cf.res = "parsing" /\ File.pos <= Len(File.buf)
    /\ \E ch \in IF File.buf[File.pos] = "any" THEN cf.alphabet ELSE {File.buf[File.pos]} :
       LET f == [File EXCEPT !.buf[File.pos] = ch, !.pos = @ + 1]
           r == Step(cf.tok, ch, f.buf, f.pos)
           st == [cf EXCEPT !.files[Len(cf.files)] = f, !.tok = r.tok, !.last = <<>>] IN
       IF r.rc = "more" THEN cf' = st ELSE cf' \in Parsed(st, r.rc)

(* The buffer is used up: what was read of the present word moves to its      *)
(* front, and the rest is filled; a word as long as the buffer is refused.    *)
FaultCarried(f, t) == SubSeq(f.buf, 1, f.pos - t.start)
Carried(f, t) == SubSeq(f.buf, t.start, f.pos - 1)
Refill ==
    /\ cf.res = "parsing" /\ File.pos > Len(File.buf) /\ File.left > 0
    /\ LET kept == Carried(File, cf.tok)
           n == IF File.left > CfBuffer - Len(kept) THEN CfBuffer - Len(kept) ELSE File.left IN
       \/ /\ Len(kept) = CfBuffer
          /\ cf' = ParseFails(cf)
       \/ /\ Len(kept) < CfBuffer
          /\ cf' = [cf EXCEPT !.files[Len(cf.files)] =
                                 [left |-> File.left - n, buf |-> kept \o Unseen(n), pos |-> Len(kept) + 1],
                              !.tok.start = 1]
       \/ cf' = ParseFails(cf)                                  \* the file cannot be read

(* The end of the file. *)
EndOfFile ==
    /\ cf.res = "parsing" /\ File.pos > Len(File.buf) /\ File.left = 0
    /\ IF cf.tok.args # <<>> THEN cf' = ParseFails(cf)
       ELSE cf' \in FileDone([cf EXCEPT !.last = <<>>])

CfNext == GetChar \/ Refill \/ EndOfFile

-----------------------------------------------------------------------------
(* How a text reads, whatever the buffer: the words of a directive. *)
Lex0 == [mode |-> "gap", words |-> <<>>, word |-> <<>>, esc |-> FALSE, dollar |-> FALSE]
EndWord(x, mode) == [x EXCEPT !.words = Append(@, x.word), !.word = <<>>, !.mode = mode, !.dollar = FALSE]
Lex(x, c) ==
    IF x.esc THEN [x EXCEPT !.word = @ \o Escaped(c), !.esc = FALSE]
    ELSE CASE x.mode = "comment" -> [x EXCEPT !.mode = IF c = "lf" THEN "gap" ELSE "comment"]
           [] x.mode = "gap" ->
                 IF c \in Blank \cup {";", "{", "}"} THEN x
                 ELSE [x EXCEPT !.mode = CASE c = "#" -> "comment" [] c \in {"dq", "sq"} -> c [] OTHER -> "word",
                                !.esc = c = "bs",
                                !.word = IF c \in {"#", "dq", "sq", "bs"} THEN <<>> ELSE <<c>>]
           [] x.mode = "after" ->
                 IF c = ")" THEN [x EXCEPT !.mode = "word", !.word = <<c>>] ELSE [x EXCEPT !.mode = "gap"]
           [] c = "bs" -> [x EXCEPT !.esc = TRUE, !.dollar = FALSE]
           [] c = x.mode -> EndWord(x, "after")
           [] x.mode = "word" /\ c \in Blank \cup {";", "{"} /\ ~(c = "{" /\ x.dollar) -> EndWord(x, "gap")
           [] OTHER -> [x EXCEPT !.word = Append(@, c), !.dollar = c = "$" \/ (c = "{" /\ @)]
Words(raw) == FoldLeft(Lex, Lex0, raw).words

(* Every directive gets the words that stand in the text, however the text    *)
(* falls into buffers; no file is left before its end, so that a block ends    *)
(* in the file it began in; and the contexts are those of the open blocks.    *)
ConfFaithful ==
    /\ cf.last # <<>> => cf.last.args = Words(cf.last.raw)
    /\ ~cf.cut
    /\ cf.res = "ok" => Len(cf.frames) = 1 /\ Len(cf.ctx) = 1
    /\ Len(cf.files) = Cardinality({i \in 1..Len(cf.frames) : cf.frames[i].kind # "block"})
=============================================================================
