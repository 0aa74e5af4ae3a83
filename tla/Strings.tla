------------------------------- MODULE Strings -------------------------------
(***************************************************************************)
(* The block and string functions of lib/string.c.  m is the memory: a     *)
(* function from addresses 0, 1, ... to bytes; a string is the address of  *)
(* its first byte, and ends at a NUL byte.  Operators that write return    *)
(* the memory after the call, memmove, strlcpy and strlcat with the call's *)
(* result; that of memcpy and memset is DST.                               *)
(***************************************************************************)
EXTENDS Integers, Sequences

NUL == 0

NoPtr == -1   \* a null pointer

\* Upwards, as memcpy and memmove to a lower address copy.
RECURSIVE memcpy(_, _, _, _)
memcpy(m, dst, src, size) ==
  IF size = 0 THEN m
  ELSE memcpy([m EXCEPT ![dst] = m[src]], dst + 1, src + 1, size - 1)

RECURSIVE CopyDown(_, _, _, _)
CopyDown(m, dst, src, size) ==
  IF size = 0 THEN m
  ELSE CopyDown([m EXCEPT ![dst + size - 1] = m[src + size - 1]], dst, src, size - 1)

\* Mutant: always copies upwards.
memmove_up(m, dst, src, size) ==
  [m |-> memcpy(m, dst, src, size), result |-> IF dst < src THEN dst + size ELSE dst]

\* The result is the pointer that the copy has moved.
memmove(m, dst, src, size) ==
  IF dst < src THEN [m |-> memcpy(m, dst, src, size), result |-> dst + size]
  ELSE [m |-> CopyDown(m, dst, src, size), result |-> dst]

RECURSIVE memset(_, _, _, _)
memset(m, dst, value, size) ==
  IF size = 0 THEN m ELSE memset([m EXCEPT ![dst] = value], dst + 1, value, size - 1)

Sign(x) == IF x < 0 THEN -1 ELSE IF x > 0 THEN 1 ELSE 0

RECURSIVE memcmp(_, _, _, _)
memcmp(m, a, b, size) ==
  IF size = 0 THEN 0
  ELSE IF m[a] # m[b] THEN Sign(m[a] - m[b])
  ELSE memcmp(m, a + 1, b + 1, size - 1)

RECURSIVE strcmp(_, _, _)
strcmp(m, a, b) ==
  IF m[a] # NUL /\ m[a] = m[b] THEN strcmp(m, a + 1, b + 1) ELSE Sign(m[a] - m[b])

RECURSIVE memchr(_, _, _, _)
memchr(m, block, ch, size) ==
  IF size = 0 THEN NoPtr
  ELSE IF m[block] = ch THEN block
  ELSE memchr(m, block + 1, ch, size - 1)

RECURSIVE strchr(_, _, _)
strchr(m, string, c) ==
  IF m[string] = c THEN string
  ELSE IF m[string] = NUL THEN NoPtr
  ELSE strchr(m, string + 1, c)

RECURSIVE strcspn(_, _, _)
strcspn(m, string, stop) ==
  IF m[string] = NUL \/ strchr(m, stop, m[string]) # NoPtr THEN 0
  ELSE 1 + strcspn(m, string + 1, stop)

RECURSIVE strpbrk(_, _, _)
strpbrk(m, string, stop) ==
  IF m[string] = NUL THEN NoPtr
  ELSE IF strchr(m, stop, m[string]) # NoPtr THEN string
  ELSE strpbrk(m, string + 1, stop)

RECURSIVE LastOf(_, _, _, _)
LastOf(m, string, c, p) ==
  IF m[string] = NUL THEN p
  ELSE LastOf(m, string + 1, c, IF m[string] = c THEN string ELSE p)

strrchr(m, string, c) == LastOf(m, string, c, NoPtr)

RECURSIVE strspn(_, _, _)
strspn(m, string, skip) ==
  IF m[string] = NUL \/ strchr(m, skip, m[string]) = NoPtr THEN 0
  ELSE 1 + strspn(m, string + 1, skip)

RECURSIVE strlen(_, _)
strlen(m, string) == IF m[string] = NUL THEN 0 ELSE 1 + strlen(m, string + 1)

RECURSIVE strnlen(_, _, _)
strnlen(m, string, maxlen) ==
  IF m[string] = NUL \/ maxlen = 0 THEN 0 ELSE 1 + strnlen(m, string + 1, maxlen - 1)

RECURSIVE FindFrom(_, _, _, _)
FindFrom(m, haystack, needle, i) ==
  IF i > strlen(m, haystack) - strlen(m, needle) THEN NoPtr
  ELSE IF memcmp(m, haystack + i, needle, strlen(m, needle)) = 0 THEN haystack + i
  ELSE FindFrom(m, haystack, needle, i + 1)

strstr(m, haystack, needle) ==
  IF strlen(m, haystack) >= strlen(m, needle) THEN FindFrom(m, haystack, needle, 0)
  ELSE NoPtr

strlcpy(m, dst, src, size) ==
  LET src_len == strlen(m, src)
      dst_len == IF src_len < size - 1 THEN src_len ELSE size - 1
  IN  [m |-> IF size = 0 THEN m
             ELSE [memcpy(m, dst, src, dst_len) EXCEPT ![dst + dst_len] = NUL],
       result |-> src_len]

strlcat(m, dst, src, size) ==
  LET src_len  == strlen(m, src)
      dst_len  == strlen(m, dst)
      copy_cnt == IF src_len < size - dst_len - 1 THEN src_len ELSE size - dst_len - 1
  IN  [m |-> IF size = 0 \/ dst_len >= size THEN m
             ELSE [memcpy(m, dst + dst_len, src, copy_cnt)
                     EXCEPT ![dst + dst_len + copy_cnt] = NUL],
       result |-> src_len + dst_len]

\* The memory, *save_ptr and the token, or NoPtr, after a call of strtok_r that
\* starts at s.
strtok_r(m, s, delimiters) ==
  LET RECURSIVE Skip(_, _)
      Skip(p, wanted) ==   \* while strchr() finds (or does not find) *p
        IF m[p] # NUL /\ (strchr(m, delimiters, m[p]) # NoPtr) = wanted
        THEN Skip(p + 1, wanted) ELSE p
      token == Skip(s, TRUE)
      end   == Skip(token, FALSE)
  IN  IF m[token] = NUL THEN [m |-> m, save |-> token, token |-> NoPtr]
      ELSE IF m[end] = NUL THEN [m |-> m, save |-> end, token |-> token]
      ELSE [m |-> [m EXCEPT ![end] = NUL], save |-> end + 1, token |-> token]

\* The loop over the tokens that strtok_r's comment shows: the memory at the
\* end, and the addresses of the tokens.
RECURSIVE Tokenize(_, _, _)
Tokenize(m, s, delimiters) ==
  LET t    == strtok_r(m, s, delimiters)
      rest == Tokenize(t.m, t.save, delimiters)
  IN  IF t.token = NoPtr THEN [m |-> t.m, tokens |-> <<>>]
      ELSE [rest EXCEPT !.tokens = <<t.token>> \o @]

=============================================================================
