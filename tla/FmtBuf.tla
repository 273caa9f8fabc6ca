------------------------------- MODULE FmtBuf -------------------------------
(***************************************************************************)
(* How a log macro puts a line together (hoarder-log/src/lib.rs): FmtBuf,  *)
(* a buffer of fixed capacity that formatting writes into piece by piece   *)
(* and that drops what does not fit, and LogLevel with its prefixes.       *)
(* A byte of text is its place in the line.                                *)
(***************************************************************************)
EXTENDS Naturals, Sequences

CONSTANT MAX_LOG_LINE   \* capacity of the buffer of one line (512)

ASSUME LineAssumption == MAX_LOG_LINE \in Nat \ {0}

LogLevels == {"Print", "Debug", "Info", "Warn", "Error"}

(* Length of LogLevel::prefix. *)
PrefixLen(level) ==
  CASE level = "Print" -> 0
    [] level \in {"Debug", "Error"} -> 8
    [] level \in {"Info", "Warn"} -> 7

(* FmtBuf::new over the zeroed array of the macro. *)
NewFmtBuf == [buf |-> [k \in 0 .. MAX_LOG_LINE - 1 |-> 0], pos |-> 0]

(* How much of n bytes there is room for. *)
ToWrite(f, n) == IF n < MAX_LOG_LINE - f.pos THEN n ELSE MAX_LOG_LINE - f.pos

write_str(f, s) ==
  LET n == ToWrite(f, Len(s))
  IN  [buf |-> [k \in 0 .. MAX_LOG_LINE - 1 |->
                  IF k \in f.pos .. f.pos + n - 1 THEN s[k - f.pos + 1] ELSE f.buf[k]],
       pos |-> f.pos + n]

as_bytes(f) == [j \in 1 .. f.pos |-> f.buf[j - 1]]

(* The n bytes of a line after the first a. *)
Piece(a, n) == [j \in 1 .. n |-> a + j]

(* __hlog!: the prefix, the message (here of n bytes) and a newline. *)
Formatted(level, n) ==
  LET prefix  == write_str(NewFmtBuf, Piece(0, PrefixLen(level)))
      message == write_str(prefix, Piece(PrefixLen(level), n))
      newline == write_str(message, Piece(PrefixLen(level) + n, 1))
  IN  as_bytes(newline)
=============================================================================
