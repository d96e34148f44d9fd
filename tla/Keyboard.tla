------------------------------ MODULE Keyboard ------------------------------
(***************************************************************************)
(* From the key to the command line: the ring buffer the keyboard interrupt *)
(* fills (drivers/input/keyboard.cpp), and the main loop that takes a line  *)
(* out of it, runs it and halts (kernel/shell.cpp, init/kernel.cpp).        *)
(*                                                                          *)
(* Only consume_line_ready is guarded against interrupts.  Each step of the *)
(* main loop below is one access to memory that the interrupt handler also  *)
(* accesses; `--count' is compiled without optimisation to a load and a     *)
(* store.  The handler itself runs with interrupts off, as one step.        *)
(***************************************************************************)
EXTENDS Integers, Sequences, SequencesExt

CONSTANTS
    BufLen,     \* sizeof(buf), and the range of the 8-bit head, tail and count: 256
    Chars,      \* what the keys stand for; shift and caps lock select among them
    NL, NUL,    \* '\n'; the zero of a slot never written
    MaxKeys     \* bound on the keys pressed

ASSUME KeyboardAssumption ==
    /\ BufLen \in Nat /\ BufLen > 2
    /\ MaxKeys \in Nat
    /\ NL # NUL /\ {NL, NUL} \cap Chars = {}

VARIABLES
    kb,         \* kb_buffer: head, tail, count, buf
    line_ready,
    pc,         \* where the main loop is
    load,       \* the count it has loaded and not yet stored
    line,       \* cmd[0 .. i], the line being taken out
    keys,       \* keys pressed
    unread,     \* what was stored, not erased and not read, as its typist sees it
    want,       \* the line the last read should have returned
    merged,     \* Enter was pressed while line_ready was still set
    spoiled     \* see Spoil below

vars == <<kb, line_ready, pc, load, line, keys, unread, want, merged, spoiled>>
reading == {"first", "test", "step", "store", "read", "final", "fstore"}

Index == 0 .. BufLen - 1

Init ==
    /\ kb = [head |-> 0, tail |-> 0, count |-> 0, buf |-> [i \in Index |-> NUL]]
    /\ line_ready = FALSE
    /\ pc = "poll" /\ load = 0 /\ line = <<>>
    /\ keys = 0 /\ unread = <<>> /\ want = <<>>
    /\ merged = FALSE /\ spoiled = FALSE
-------------------------------------------------------------------------------
\* uint8_t arithmetic.
Inc(n) == (n + 1) % BufLen
Dec(n) == (n + BufLen - 1) % BufLen

\* The writer and the reader leave out the last slot.
Wrap(i) == IF i = BufLen - 1 THEN 0 ELSE i

\* put_buffer: a character, dropped when the buffer is full.
PutBuffer(c) ==
    kb' = IF kb.count < BufLen - 1
          THEN [kb EXCEPT !.count = Inc(@), !.buf[kb.tail] = c, !.tail = Wrap(Inc(@))]
          ELSE kb

\* put_buffer('\b').  The test for -1 never succeeds: the tail is unsigned.
EraseLast == kb' = [kb EXCEPT !.count = Dec(@), !.tail = Dec(@)]

Press == keys < MaxKeys /\ keys' = keys + 1
Stored == kb.count < BufLen - 1
\* An interrupt ends the main loop's hlt.
Wake == pc' = IF pc = "halt" THEN "poll" ELSE pc

\* Five things the code does not survive: an Enter that finds the buffer full,
\* an Enter that is erased, an erasure across the end of the ring, a line across
\* it (Read) and a key between the main loop's load and store of count.
Spoil(b) == spoiled' = (spoiled \/ b)

KeyChar(c) ==
    /\ Press /\ Wake
    /\ PutBuffer(c)
    /\ unread' = IF Stored THEN Append(unread, c) ELSE unread
    /\ UNCHANGED <<line_ready, load, line, want, merged, spoiled>>

KeyEnter ==
    /\ Press /\ Wake
    /\ PutBuffer(NL)
    /\ unread' = IF Stored THEN Append(unread, NL) ELSE unread
    /\ line_ready' = TRUE
    /\ merged' = (merged \/ line_ready)
    /\ Spoil(~Stored)
    /\ UNCHANGED <<load, line, want>>

KeyBackspace ==
    /\ Press /\ Wake
    /\ kb.count > 0
    /\ EraseLast
    /\ unread' = IF unread = <<>> THEN <<>> ELSE Front(unread)
    /\ Spoil(unread = <<>> \/ Last(unread) = NL \/ kb.tail = 0)
    /\ UNCHANGED <<line_ready, load, line, want, merged>>

\* The timer interrupt, at 1000 Hz.
Timer ==
    /\ pc = "halt" /\ pc' = "poll"
    /\ UNCHANGED <<kb, line_ready, load, line, keys, unread, want, merged, spoiled>>
-------------------------------------------------------------------------------
(* The main loop: simpleShell, then hlt                                     *)

\* The flag is tested and cleared with interrupts off.
ConsumeLineReady ==
    /\ pc = "poll"
    /\ pc' = IF line_ready THEN "first" ELSE "halt"
    /\ line_ready' = FALSE
    /\ UNCHANGED <<kb, load, line, keys, unread, want, merged, spoiled>>

\* get_buffer: the first character ...
First ==
    /\ pc = "first" /\ pc' = "test"
    /\ line' = <<kb.buf[kb.head]>>
    /\ UNCHANGED <<kb, line_ready, load, keys, unread, want, merged, spoiled>>

\* ... while there is one and it is not '\n' ...
Test ==
    /\ pc = "test"
    /\ pc' = IF kb.count > 0 /\ Last(line) # NL THEN "step" ELSE "final"
    /\ UNCHANGED <<kb, line_ready, load, line, keys, unread, want, merged, spoiled>>

\* ... the head moves on and count goes down ...
Advance(next) ==
    /\ kb' = [kb EXCEPT !.head = Inc(@)]
    /\ load' = kb.count
    /\ pc' = next
    /\ UNCHANGED <<line_ready, line, keys, unread, want, merged, spoiled>>

Step == pc = "step" /\ Advance("store")

Store ==
    /\ pc = "store" /\ pc' = "read"
    /\ kb' = [kb EXCEPT !.count = Dec(load)]
    /\ Spoil(kb.count # load)
    /\ UNCHANGED <<line_ready, load, line, keys, unread, want, merged>>

\* ... and the next one is read, from the last slot too: the head wraps behind it.
Read ==
    /\ pc = "read" /\ pc' = "test"
    /\ line' = Append(line, kb.buf[kb.head])
    /\ kb' = [kb EXCEPT !.head = Wrap(@)]
    /\ Spoil(kb.head = BufLen - 1)
    /\ UNCHANGED <<line_ready, load, keys, unread, want, merged>>

Final == pc = "final" /\ Advance("fstore")

\* The unread input up to its first '\n' should have been read.
ReadLine ==
    LET n == SelectInSeq(unread, LAMBDA c : c = NL)
    IN  /\ want' = SubSeq(unread, 1, n - 1)
        /\ unread' = SubSeq(unread, n + 1, Len(unread))

\* Mutant: the '\n' is left in the count.
FinalStore_KeepsCount ==
    /\ pc = "fstore" /\ pc' = "run"
    /\ kb' = [kb EXCEPT !.head = Wrap(@)]
    /\ line' = Front(line) /\ ReadLine
    /\ Spoil(kb.count # load)
    /\ UNCHANGED <<line_ready, load, keys, merged>>

\* Mutant: the flag is cleared when the line has been read.
FinalStore_ClearsFlag ==
    /\ pc = "fstore" /\ pc' = "run"
    /\ kb' = [kb EXCEPT !.count = Dec(load), !.head = Wrap(@)]
    /\ line' = Front(line) /\ ReadLine
    /\ line_ready' = FALSE
    /\ Spoil(kb.count # load)
    /\ UNCHANGED <<load, keys, merged>>

\* The '\n' is taken out and '\0' put in its place.
FinalStore ==
    /\ pc = "fstore" /\ pc' = "run"
    /\ kb' = [kb EXCEPT !.count = Dec(load), !.head = Wrap(@)]
    /\ line' = Front(line) /\ ReadLine
    /\ Spoil(kb.count # load)
    /\ UNCHANGED <<line_ready, load, keys, merged>>

\* The command is run, the prompt printed, and the processor halted.
Run ==
    /\ pc = "run" /\ pc' = "halt"
    /\ UNCHANGED <<kb, line_ready, load, line, keys, unread, want, merged, spoiled>>

Main ==
    \/ ConsumeLineReady \/ First \/ Test \/ Step \/ Store \/ Read
    \/ Final \/ FinalStore \/ Run

Next ==
    \/ \E c \in Chars : KeyChar(c)
    \/ KeyEnter \/ KeyBackspace \/ Timer
    \/ Main

\* The main loop runs whenever no interrupt does, and the timer keeps ticking.
Spec == Init /\ [][Next]_vars /\ WF_vars(Main) /\ WF_vars(Timer)
-------------------------------------------------------------------------------
\* The slots from the head on, as the reader would visit them.
Held(n) == [i \in 1 .. n |-> kb.buf[(kb.head + i - 1) % (BufLen - 1)]]

\* No key is lost, doubled or reordered between the interrupt and the command,
\* whichever step of the main loop it interrupts: a command gets the line that
\* was typed for it, and between two lines the ring holds exactly what is still
\* unread.  This holds up to the first of the five events of Spoil.
InputIntact ==
    ~spoiled =>
        /\ pc = "run" => line = want
        /\ pc \notin reading => kb.count = Len(unread) /\ Held(kb.count) = unread

HasLine == SelectInSeq(unread, LAMBDA c : c = NL) # 0

\* A line that is complete is taken out in the end, although the main loop tests
\* the flag and then halts, and the next Enter may come anywhere in between.
\* (One flag stands for any number of lines: after two Enters before one poll
\* a line waits for the Enter after it.)
LineTaken == HasLine ~> (~HasLine \/ merged \/ spoiled)
===============================================================================
