------------------------------ MODULE Terminal ------------------------------
(***************************************************************************)
(* The interactive prompt of the file server's console                    *)
(* (fileserver/src/terminal.rs): TerminalInstance::handle_input on a key  *)
(* event, and the TerminalPrompt line editor with its history that it     *)
(* drives.  The prompt is a record; HandleKey is one key event and        *)
(* returns the prompt after it and what it sent to the command loop.      *)
(*                                                                         *)
(* A line is a sequence of characters.  Only ASCII reaches the editor,    *)
(* and what matters of a character is whether it is a blank (the command  *)
(* test) and whether it is the "k" of the ^C^K exit chord, so the         *)
(* characters are " " and "k"; "wide" is a key whose char is longer than *)
(* one byte.  The offsets are the code's 0-based byte offsets, so a       *)
(* sequence position is the offset plus one.  Drawing (print_prompt,      *)
(* update_cursor, println) writes to stdout and changes no prompt state   *)
(* but prompt_length, which only decides how many blanks are printed; it  *)
(* is left out, and so is the event channel behind send_terminal_event.   *)
(* An Option is a set: {} is None, {x} is Some(x).                         *)
(***************************************************************************)
EXTENDS Naturals, Sequences, SequencesExt

CONSTANTS
    HistoryLimit,   \* the history keeps this many lines (16 in the code)
    MaxLine         \* bound on the length of a typed line

Chars == {" ", "k"}

Key(code, ctrl) == [code |-> code, ctrl |-> ctrl]

\* The key events: the two characters, a non-ASCII one, ^C, ^K, the
\* editing keys, and a resize (not a key: it leaves control_issued alone)
Keys == {Key(c, FALSE) : c \in Chars \cup {"wide", "Backspace", "Delete",
                                          "Left", "Right", "Up", "Down",
                                          "Enter", "Resize"}}
        \cup {Key("c", TRUE), Key("k", TRUE)}

Some(o) == CHOOSE x \in o : TRUE

\* TerminalPrompt::new and the control_issued flag of TerminalInstance::new
InitPrompt ==
    [line |-> <<>>, offset |-> 0, draw |-> <<>>, cursor |-> 0,
     temp |-> {}, history |-> <<>>, hoff |-> {}, control |-> FALSE]

\* Editing leaves history mode and forgets the line saved on entering it
Edited(p) == [p EXCEPT !.temp = {}, !.hoff = {}]

PromptChar(p, c) ==
    [Edited(p) EXCEPT !.line = InsertAt(p.line, p.offset + 1, c),
                      !.draw = InsertAt(p.draw, p.offset + 1, c),
                      !.offset = p.offset + 1, !.cursor = p.cursor + 1]

PromptBackspace(p) ==
    IF p.offset = 0 THEN p
    ELSE [Edited(p) EXCEPT !.line = RemoveAt(p.line, p.offset),
                           !.draw = RemoveAt(p.draw, p.offset),
                           !.offset = p.offset - 1, !.cursor = p.cursor - 1]

PromptDelete(p) ==
    IF p.offset >= Len(p.line) THEN p
    ELSE [Edited(p) EXCEPT !.line = RemoveAt(p.line, p.offset + 1),
                           !.draw = RemoveAt(p.draw, p.offset + 1)]

PromptLeft(p) ==
    IF p.offset > 0 THEN [p EXCEPT !.offset = @ - 1, !.cursor = @ - 1] ELSE p

PromptRight(p) ==
    IF p.offset < Len(p.line) THEN [p EXCEPT !.offset = @ + 1, !.cursor = @ + 1]
    ELSE p

\* Show a line with the cursor at its end (update_draw_buffer)
Recall(p, l) == [p EXCEPT !.line = l, !.offset = Len(l), !.draw = l,
                          !.cursor = Len(l)]

\* Up: one entry back; entering history mode saves a non-empty line
PromptUp(p) ==
    CASE p.hoff # {} /\ Some(p.hoff) = 0 -> p
      [] p.hoff # {} -> LET q == Some(p.hoff) - 1 IN
                        Recall([p EXCEPT !.hoff = {q}], p.history[q + 1])
      [] p.history = <<>> -> p
      [] OTHER -> LET q == Len(p.history) - 1
                      saved == IF p.line # <<>> THEN {p.line} ELSE p.temp
                  IN  Recall([p EXCEPT !.hoff = {q}, !.temp = saved],
                             p.history[q + 1])

\* Mutant: leaving the history shows an empty line, not the saved one
PromptDownNoTemp(p) ==
    CASE p.hoff = {} -> p
      [] Some(p.hoff) + 1 < Len(p.history) ->
             LET q == Some(p.hoff) + 1 IN
             Recall([p EXCEPT !.hoff = {q}], p.history[q + 1])
      [] OTHER -> Recall([p EXCEPT !.hoff = {}, !.temp = {}], <<>>)

\* Down: one entry forward; past the newest entry the saved line is back
PromptDown(p) ==
    CASE p.hoff = {} -> p
      [] Some(p.hoff) + 1 < Len(p.history) ->
             LET q == Some(p.hoff) + 1 IN
             Recall([p EXCEPT !.hoff = {q}], p.history[q + 1])
      [] p.temp # {} -> Recall([p EXCEPT !.hoff = {}, !.temp = {}], Some(p.temp))
      [] OTHER -> Recall([p EXCEPT !.hoff = {}], <<>>)

\* TerminalPrompt::handle_input
PromptInput(p, k) ==
    CASE k.code \in Chars     -> PromptChar(p, k.code)
      [] k.code = "Backspace" -> PromptBackspace(p)
      [] k.code = "Delete"    -> PromptDelete(p)
      [] k.code = "Left"      -> PromptLeft(p)
      [] k.code = "Right"     -> PromptRight(p)
      [] k.code = "Up"        -> PromptUp(p)
      [] k.code = "Down"      -> PromptDown(p)
      [] OTHER                -> p

\* the last HistoryLimit entries (push_back, then pop_front while too long)
Trimmed(h) == IF Len(h) > HistoryLimit THEN SubSeq(h, Len(h) - HistoryLimit + 1, Len(h))
              ELSE h

\* Mutant: take_line leaves temp_line_buffer as it was
TakeLineKeepTemp(p) ==
    [p EXCEPT !.draw = <<>>, !.cursor = 0, !.offset = 0, !.line = <<>>,
              !.history = Trimmed(Append(p.history, p.line)), !.hoff = {}]

\* TerminalPrompt::take_line: every line goes to the history, blank or not
TakeLine(p) ==
    [p EXCEPT !.draw = <<>>, !.cursor = 0, !.offset = 0, !.line = <<>>,
              !.temp = {}, !.history = Trimmed(Append(p.history, p.line)),
              !.hoff = {}]

NonBlank(l) == \E i \in DOMAIN l : l[i] # " "

\* TerminalInstance::handle_input for a key or resize event: [prompt, sent]
HandleKey(p, k) ==
    CASE k.code = "Resize"           -> [prompt |-> p, sent |-> {}]
      [] k.ctrl /\ k.code = "c"      -> [prompt |-> [p EXCEPT !.control = TRUE],
                                         sent |-> {}]
      [] k.ctrl /\ k.code = "k" /\ p.control ->
                                        [prompt |-> p, sent |-> {"Terminate"}]
      [] k.code = "Enter"            ->
             [prompt |-> TakeLine(p),
              sent |-> IF NonBlank(p.line) THEN {<<"Command", p.line>>} ELSE {}]
      [] OTHER -> [prompt |-> PromptInput([p EXCEPT !.control = FALSE], k),
                   sent |-> {}]

\* a character is typed only while the line is below the bound
Allowed(p, k) == k.code \in Chars => Len(p.line) < MaxLine

RECURSIVE Explore(_, _)
Explore(seen, frontier) ==
    IF frontier = {} THEN seen
    ELSE LET Successors(p) ==
                     {HandleKey(p, k).prompt : k \in {x \in Keys : Allowed(p, x)}}
             next == UNION {Successors(p) : p \in frontier} \ seen
         IN  Explore(seen \cup next, next)

\* every prompt state a sequence of key events reaches
Reachable == Explore({InitPrompt}, {InitPrompt})

RECURSIVE Press(_, _, _)
Press(p, k, n) == IF n = 0 THEN p ELSE Press(HandleKey(p, k).prompt, k, n - 1)

\* In every state the key events reach, the screen shows the line being
\* edited with the cursor at the edit offset (each handle_input branch
\* edits draw_buffer beside line_buffer), the history stays within its
\* limit, a history position points into it, and a saved line exists
\* only in history mode.
TerminalPromptFaithfulAll ==
    \A p \in Reachable :
        /\ p.draw = p.line /\ p.cursor = p.offset
        /\ p.offset <= Len(p.line)
        /\ Len(p.history) <= HistoryLimit
        /\ p.hoff # {} => Some(p.hoff) < Len(p.history)
        /\ p.temp # {} => p.hoff # {}

\* From any state outside history mode, k presses of Up show the k-th
\* newest history line, and k presses of Down after them bring back the
\* line that was being typed (saved in temp_line_buffer on the way in).
RecallRestoresDraftAll ==
    \A p \in Reachable : p.hoff = {} =>
        \A n \in 1..Len(p.history) :
            LET up == Press(p, Key("Up", FALSE), n) IN
            /\ up.line = p.history[Len(p.history) - n + 1]
            /\ Press(up, Key("Down", FALSE), n).line = p.line

=============================================================================
