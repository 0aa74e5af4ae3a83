------------------------------ MODULE ArgStack ------------------------------
(***************************************************************************)
(* load_stack of start_process in userprog/process.c: the command line     *)
(* becomes the first frame of the user's stack.  An address is an offset   *)
(* from stackFrame, the top of the stack, which is a multiple of 16.  A    *)
(* frame is what was written: bytes at addresses, and ints at the          *)
(* addresses of their first byte.                                          *)
(***************************************************************************)
EXTENDS Integers, Sequences, FiniteSets, SequencesExt

CONSTANT Space   \* the character that separates arguments

EndOfString == "NUL"

NewFrame == [ptr |-> 0, byte |-> <<>>, int |-> <<>>]

Put(f, a, x) == [b \in DOMAIN f \cup {a} |-> IF b = a THEN x ELSE f[b]]

push_char(f, c) == [f EXCEPT !.ptr = @ - 1, !.byte = Put(@, f.ptr - 1, c)]

push_int(f, i) == [f EXCEPT !.ptr = @ - 4, !.int = Put(@, f.ptr - 4, i)]

\* The loop over the command line, backwards: the frame and numTokens.
RECURSIVE PushChars(_, _, _, _, _)
PushChars(f, line, i, wasSpace, numTokens) ==
  LET c == line[i]
      g == IF wasSpace THEN push_char(f, EndOfString) ELSE f
  IN  IF i = 0 THEN <<f, numTokens>>
      ELSE IF c = Space THEN PushChars(f, line, i - 1, TRUE, numTokens)
      ELSE PushChars(push_char(g, c), line, i - 1, FALSE,
                     IF wasSpace THEN numTokens + 1 ELSE numTokens)

\* Mutant: counts the pointers of argv only.
Padding_argv(argvLen, numTokens) == (16 - ((argvLen + numTokens * 4) % 16)) % 16

Padding(argvLen, numTokens) == (16 - ((argvLen + (numTokens + 3) * 4) % 16)) % 16

RECURSIVE Pad(_, _)
Pad(f, n) == IF n = 0 THEN f ELSE Pad(push_char(f, EndOfString), n - 1)

\* The loop over the bytes pushed, downwards from OFFSET: a pointer is pushed
\* for each of the LEFT tokens not met yet.
RECURSIVE PushArgv(_, _, _, _)
PushArgv(f, argvLen, offset, left) ==
  LET isChar == f.byte[offset] # EndOfString
      starts == offset = -argvLen \/ (f.byte[offset - 1] = EndOfString /\ isChar)
  IN  IF left = 0 \/ offset < -argvLen THEN f
      ELSE IF starts THEN PushArgv(push_int(f, offset), argvLen, offset - 1, left - 1)
      ELSE PushArgv(f, argvLen, offset - 1, left)

\* The frame, with if_.esp in ptr.
load_stack(line) ==
  LET chars   == PushChars(NewFrame, line, Len(line), TRUE, 0)
      argvLen == -chars[1].ptr
      padded  == Pad(chars[1], Padding(argvLen, chars[2]))
      argv    == PushArgv(push_int(padded, 0), argvLen, -1, chars[2])
      frame   == push_int(push_int(argv, argv.ptr), chars[2])
  IN  [frame EXCEPT !.ptr = @ - 4]

=============================================================================
