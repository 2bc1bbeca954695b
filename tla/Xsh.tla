-------------------------------- MODULE Xsh --------------------------------
(***************************************************************************)
(* The line editor of the shell (src/src/xsh/xsh.c): what it does with the *)
(* characters it is sent, and what the terminal shows of it.  The shell's  *)
(* output goes through its TTY, which holds TxSize frames and is emptied   *)
(* by the tick; when it is full, a write is tried a few times more and     *)
(* then dropped, and a prompt is put off (Zbus has the details).           *)
(*                                                                         *)
(* What a command answers is one line here; what it does is in Kernel.     *)
(***************************************************************************)
EXTENDS Integers, Sequences, FiniteSets, SequencesExt

CONSTANTS
  Chars,     \* the printable characters but the blank
  Names,     \* the command names, sequences of Chars
  LineMax,   \* XSH_LINE_MAX
  RxBurst,   \* XSH_RX_BURST, the most characters one xsh_tick takes
  TxSize     \* ZBUS_TX_QUEUE_SIZE

ASSUME XshAssumption ==
  /\ Names \subseteq Seq(Chars)
  /\ LineMax \in Nat \ {0} /\ RxBurst \in Nat \ {0} /\ TxSize \in Nat \ {0}

VARIABLES
  line,            \* sh->line, up to line_len
  last_was_cr, started, pending_prompt,
  burst,           \* the characters xsh_tick has still to look at; Idle
                   \* between two calls of it
  out,             \* the writes it has to make before that
  room,            \* the free frames of the TTY
  row,             \* the row of the terminal the cursor is in, or Spoilt
                   \* where output of it was dropped or came late
  quiet            \* nothing is typed any more

editVars   == <<line, last_was_cr>>
promptVars == <<started, pending_prompt>>
screen     == <<room, row>>
xshVars    == <<editVars, promptVars, burst, out, screen, quiet>>

Idle   == RxBurst + 1
Blank  == " "
Spoilt == <<"?">>
Keys   == Chars \cup {Blank, "CR", "LF", "TAB", "BS", "ESC"}

\* One write each: text shown as it is, a line end, the erasing of one
\* character, and the prompt, which alone is tried only once.
Text(shown) == [op |-> "text", shown |-> shown]
Newline     == [op |-> "newline", shown |-> <<>>]
Erase       == [op |-> "erase", shown |-> <<>>]
Prompt      == [op |-> "prompt", shown |-> <<"prompt">>]
Answer      == << Text(<<"...">>), Newline >>

\* xsh_init
XshInit ==
  /\ line = <<>> /\ last_was_cr = FALSE
  /\ started = FALSE /\ pending_prompt = FALSE
  /\ burst = Idle /\ out = <<>>
  /\ room = TxSize /\ row = <<>> /\ quiet = FALSE

----------------------------------------------------------------------------
(* xsh_on_char *)

AllBlank(l) == \A i \in 1 .. Len(l) : l[i] = Blank

\* The line end, what xsh_execute_line answers, and a new prompt.
Enter ==
  /\ out'  = <<Newline>> \o (IF AllBlank(line) THEN <<>> ELSE Answer) \o <<Prompt>>
  /\ line' = <<>>

\* line_len stops at XSH_LINE_MAX - 1.
Fitting(l) == IF Len(l) < LineMax THEN l ELSE SubSeq(l, 1, LineMax - 1)

\* The line becomes longer, and each character added is echoed.
Extend(longer) ==
  LET new == Fitting(longer) IN
    /\ line' = new
    /\ out'  = [i \in 1 .. Len(new) - Len(line) |-> Text(<<new[Len(line) + i]>>)]

\* Mutant: there is something to erase on an empty line.
BackspaceMutant ==
  /\ line' = IF line = <<>> THEN <<>> ELSE Front(line)
  /\ out'  = <<Erase>>

Backspace ==
  IF line = <<>> THEN UNCHANGED <<line, out>>
  ELSE line' = Front(line) /\ out' = <<Erase>>

Matches == {n \in Names : IsPrefix(line, n)}

\* xsh_complete: as far as all the matches agree, and a blank after the only
\* one; several are listed in a line, and prompt and line written again.
Complete ==
  LET longer  == LongestCommonPrefix(Matches)
      again   == IF line' = <<>> THEN <<>> ELSE <<Text(line')>>
      added   == [i \in 1 .. Len(line') - Len(line) |-> Text(<<line'[Len(line) + i]>>)]
  IN  IF Matches = {} \/ ~(\A i \in 1 .. Len(line) : line[i] # Blank)
      THEN UNCHANGED <<line, out>>
      ELSE IF Cardinality(Matches) = 1
      THEN Extend(Append(longer, Blank))
      ELSE /\ line' = Fitting(longer)
           /\ out' = added \o <<Newline>> \o Answer \o <<Prompt>> \o again

OnChar(key) ==
  /\ out = <<>> /\ burst \in 1 .. RxBurst
  /\ burst' = burst - 1
  /\ last_was_cr' = (key = "CR")
  /\ \/ key = "LF" /\ last_was_cr /\ UNCHANGED <<line, out>>
     \/ (key = "CR" \/ (key = "LF" /\ ~last_was_cr)) /\ Enter
     \/ key = "BS"  /\ Backspace
     \/ key = "TAB" /\ Complete
     \/ key \in Chars \cup {Blank} /\ Extend(Append(line, key))
     \/ key = "ESC" /\ UNCHANGED <<line, out>>
  /\ UNCHANGED <<promptVars, screen, quiet>>

----------------------------------------------------------------------------
(* The writes *)

\* A row that is spoilt stays so until the next one.
Shown(write) ==
  /\ room > 0 /\ room' = room - 1
  /\ \/ write.op = "newline" /\ row' = <<>>
     \/ write.op # "newline" /\ row = Spoilt /\ UNCHANGED row
     \/ /\ write.op = "erase" /\ row # Spoilt
        /\ row' = IF row = <<>> THEN <<>> ELSE Front(row)
     \/ write.op = "text" /\ row # Spoilt /\ row' = row \o write.shown
     \/ /\ write.op = "prompt" /\ row # Spoilt
        /\ row' = IF row = <<>> THEN write.shown ELSE Spoilt

Send ==
  /\ out # <<>> /\ Shown(Head(out))
  /\ out' = Tail(out)
  /\ pending_prompt' = (pending_prompt /\ Head(out).op # "prompt")
  /\ UNCHANGED <<editVars, started, burst, quiet>>

\* xsh_write_bytes after its last attempt
Drop ==
  /\ room = 0 /\ out # <<>> /\ Head(out).op # "prompt"
  /\ out' = Tail(out)
  /\ row' = Spoilt
  /\ UNCHANGED <<editVars, promptVars, burst, room, quiet>>

\* xsh_try_prompt after its only one
PutOff ==
  /\ room = 0 /\ out # <<>> /\ Head(out).op = "prompt"
  /\ out' = Tail(out)
  /\ pending_prompt' = TRUE
  /\ UNCHANGED <<editVars, started, burst, screen, quiet>>

----------------------------------------------------------------------------
(* xsh_tick, which main_xsh calls all the time *)

\* The first call writes the banner and a prompt; each reads up to RxBurst
\* characters.
XshTick(n) ==
  /\ burst = Idle
  /\ quiet => n = 0
  /\ burst'   = n
  /\ started' = TRUE
  /\ out'     = IF started THEN <<>> ELSE Answer \o <<Prompt>>
  /\ UNCHANGED <<editVars, pending_prompt, screen, quiet>>

\* Mutant: the prompt is forgotten.
RetryPromptMutant == UNCHANGED <<pending_prompt, screen>>

\* The end of xsh_tick: a prompt that was put off is tried again.
RetryPrompt ==
  IF pending_prompt /\ room > 0
  THEN Shown(Prompt) /\ pending_prompt' = FALSE
  ELSE UNCHANGED <<pending_prompt, screen>>

XshTickEnds ==
  /\ burst = 0 /\ out = <<>>
  /\ burst' = Idle
  /\ RetryPrompt
  /\ UNCHANGED <<editVars, started, out, quiet>>

\* zbus_tick sends some of the frames.
ZbusTick ==
  /\ room < TxSize
  /\ room' \in room + 1 .. TxSize
  /\ UNCHANGED <<editVars, promptVars, burst, out, row, quiet>>

\* The user leaves the keyboard.
Quiet ==
  /\ ~quiet /\ quiet' = TRUE
  /\ UNCHANGED <<editVars, promptVars, burst, out, screen>>

Shell ==
  \/ \E key \in Keys : OnChar(key)
  \/ Send \/ Drop \/ PutOff
  \/ \E n \in 0 .. RxBurst : XshTick(n)
  \/ XshTickEnds

XshNext == Shell \/ ZbusTick \/ Quiet

XshSpec == XshInit /\ [][XshNext]_xshVars

\* The timer interrupt keeps coming, and the scheduler lets xsh run.
XshFairSpec == XshSpec /\ WF_xshVars(Shell) /\ WF_xshVars(ZbusTick)

----------------------------------------------------------------------------
Writes == [op : {"text", "newline", "erase", "prompt"},
           shown : Seq(Chars \cup {Blank, "...", "prompt"})]

\* In particular, the line leaves a place for the 0 that ends it (xsh.c:354).
XshTypeOK ==
  /\ line \in Seq(Chars \cup {Blank}) /\ Len(line) < LineMax
  /\ last_was_cr \in BOOLEAN /\ started \in BOOLEAN /\ pending_prompt \in BOOLEAN
  /\ burst \in 0 .. Idle /\ out \in Seq(Writes)
  /\ room \in 0 .. TxSize /\ row \in Seq(Chars \cup {Blank, "...", "prompt", "?"})
  /\ quiet \in BOOLEAN

\* What the terminal shows is what Enter will execute: behind the prompt,
\* or in front of a prompt still to come, stands exactly the line, whatever
\* was typed, erased, completed and listed, and however the row began
\* (xsh.c:388-550).  Not so where output was dropped, or a prompt that was
\* put off came behind what was typed meanwhile.
ScreenShowsLine ==
  started /\ out = <<>> /\ row # Spoilt =>
    row = IF pending_prompt THEN line ELSE <<"prompt">> \o line

\* Once nothing is typed any more, a prompt that was put off comes
\* (xsh.c:593-597).
PromptComes == quiet /\ pending_prompt ~> ~pending_prompt

=============================================================================
