------------------------------- MODULE Console -------------------------------
(***************************************************************************)
(* What a compiled program writes (bre/src/bery_native.cpp), from its      *)
(* first statement to the end of the process.  Bytes are numbered in the   *)
(* order in which the program prints them.  A turn of bufferWrite's loop   *)
(* is a step; what calls bufferWrite goes on with `after'.  What scanf and *)
(* fgetc make of the input is not modelled, only that the program waits.   *)
(***************************************************************************)
EXTENDS Integers, Sequences

CONSTANTS
  BufferSize,  \* BERY_OUTPUT_BUFFER_SIZE
  MaxText,     \* bound: the bytes of one string
  MaxPrinted   \* bound: the bytes a program prints

VARIABLES
  outputBuffer,  \* the bytes of g_outputBuffer below g_outputPos
  outputPos,
  text,          \* the argument of bufferWrite, what is left of it
  after,         \* what follows bufferWrite, see Then
  process,       \* "running", "waiting" for input, in "destructors" of the
                 \* shutdown, "ended" or "crashed"
  shown,         \* the bytes stdout was given
  printed,       \* history: how many bytes were printed
  due            \* history: how many of them the last println, prompt or
                 \* exit is to show

consoleVars ==
  <<outputBuffer, outputPos, text, after, process, shown, printed, due>>

Bytes(from, to) == [k \in 1..(to - from + 1) |-> from + k - 1]

Init ==
  /\ outputBuffer = <<>> /\ outputPos = 0
  /\ text = <<>> /\ after = "statement" /\ process = "running"
  /\ shown = <<>> /\ printed = 0 /\ due = 0

Running == process \in {"running", "destructors"}
InProgram == Running /\ text = <<>> /\ after = "statement"

\* The program prints n bytes, and then the runtime does `to'.
Write(n, to) ==
  /\ printed + n <= MaxPrinted
  /\ text' = Bytes(printed + 1, printed + n)
  /\ printed' = printed + n
  /\ after' = to
  /\ due' = IF to = "statement" THEN due ELSE printed'
  /\ UNCHANGED <<outputBuffer, outputPos, process, shown>>

\* bery_print_*; a null string prints nothing.
PrintText == InProgram /\ \E n \in 1..MaxText : Write(n, "statement")
Println == InProgram /\ Write(1, "flush")
\* bery_input*: without a prompt nothing is flushed.  Destructors that ask for
\* input are left out.
Input ==
  /\ InProgram /\ process = "running"
  /\ \/ \E n \in 0..MaxText : Write(n, "prompt")
     \/ /\ process' = "waiting"
        /\ UNCHANGED <<outputBuffer, outputPos, text, after, shown, printed,
                       due>>
Answer ==
  /\ process = "waiting" /\ process' = "running"
  /\ UNCHANGED <<outputBuffer, outputPos, text, after, shown, printed, due>>
\* __bery_exit, __bery_panic and the return of the run block, which calls
\* bery_runtime_shutdown.
Leave ==
  /\ InProgram
  /\ \/ \E n \in 0..MaxText : Write(n, "exit")
     \/ process = "running" /\ Write(0, "shutdown")

\* bery_output_flush
Flush(buffer, pos) ==
  /\ shown' = shown \o SubSeq(buffer, 1, pos)
  /\ outputBuffer' = <<>> /\ outputPos' = 0

\* Mutant: what did not fit is not kept.
BugRestDropped ==
  /\ Running /\ text # <<>>
  /\ LET space == BufferSize - outputPos
         chunk == IF Len(text) < space THEN Len(text) ELSE space
         filled == outputBuffer \o SubSeq(text, 1, chunk)
     IN  /\ text' = <<>>
         /\ IF outputPos + chunk = BufferSize
            THEN Flush(filled, BufferSize)
            ELSE /\ outputBuffer' = filled /\ outputPos' = outputPos + chunk
                 /\ UNCHANGED shown
  /\ UNCHANGED <<after, process, printed, due>>

bufferWrite ==
  /\ Running /\ text # <<>>
  /\ LET space == BufferSize - outputPos
         chunk == IF Len(text) < space THEN Len(text) ELSE space
         filled == outputBuffer \o SubSeq(text, 1, chunk)
     IN  /\ text' = SubSeq(text, chunk + 1, Len(text))
         /\ IF outputPos + chunk = BufferSize
            THEN Flush(filled, BufferSize)
            ELSE /\ outputBuffer' = filled /\ outputPos' = outputPos + chunk
                 /\ UNCHANGED shown
  /\ UNCHANGED <<after, process, printed, due>>

\* The process after the flush.
Then ==
  [flush |-> "running", prompt |-> "waiting", exit |-> "ended",
   shutdown |-> "destructors"]

\* Mutant: an exit and a prompt leave the buffer as it is.
BugPromptPending ==
  /\ Running /\ text = <<>> /\ after # "statement"
  /\ IF after \in {"prompt", "exit"}
     THEN UNCHANGED <<outputBuffer, outputPos, shown>>
     ELSE Flush(outputBuffer, outputPos)
  /\ process' = IF after = "flush" THEN process ELSE Then[after]
  /\ after' = "statement"
  /\ UNCHANGED <<text, printed, due>>

flushAfter ==
  /\ Running /\ text = <<>> /\ after # "statement"
  /\ Flush(outputBuffer, outputPos)
  /\ process' = IF after = "flush" THEN process ELSE Then[after]
  /\ after' = "statement"
  /\ UNCHANGED <<text, printed, due>>

\* The destructors have run; nothing flushes what they printed.
ShutdownEnds ==
  /\ process = "destructors" /\ InProgram /\ process' = "ended"
  /\ UNCHANGED <<outputBuffer, outputPos, text, after, shown, printed, due>>

\* A null pointer is read or the program is killed, at any point.
Crash ==
  /\ process \in {"running", "waiting", "destructors"}
  /\ process' = "crashed"
  /\ UNCHANGED <<outputBuffer, outputPos, text, after, shown, printed, due>>

Next ==
  \/ PrintText \/ Println \/ Input \/ Answer \/ Leave
  \/ bufferWrite \/ flushAfter \/ ShutdownEnds \/ Crash

-----------------------------------------------------------------------------
(***************************************************************************)
(* Properties                                                              *)
(***************************************************************************)
\* Every byte is in one place, in the order of printing: shown, in the
\* buffer, or still to be put there, through strings longer than the buffer.
\* The buffer is never left full, or bufferWrite would have no space to use.
PrintedInOrder ==
  /\ shown \o outputBuffer \o text = Bytes(1, printed)
  /\ outputPos = Len(outputBuffer) /\ outputPos < BufferSize

\* Whatever ends the process, what was printed before a println, a prompt or
\* an exit that has been executed was shown.  A program waits for input with
\* text in the buffer only if it gives no prompt, and a process that ends by
\* itself loses only what destructors printed in the shutdown.
FlushPoints == after = "statement" => Len(shown) >= due
=============================================================================
