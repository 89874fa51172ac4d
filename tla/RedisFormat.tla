----------------------------- MODULE RedisFormat -----------------------------
(***************************************************************************)
(* How hiredis.c turns a printf-like format, or a list of arguments, into  *)
(* the bytes of a command.  A format is a sequence of characters; the      *)
(* variable arguments are a sequence of byte strings (%s, %b) and numbers  *)
(* (%d and the like).                                                      *)
(***************************************************************************)
EXTENDS RedisReader

(* The loop takes four digits at a time.                                   *)
RECURSIVE countDigits(_)
countDigits(v) ==
  CASE v < 10 -> 1 [] v < 100 -> 2 [] v < 1000 -> 3 [] v < 10000 -> 4
    [] OTHER -> 4 + countDigits(v \div 10000)

(* $<len>\r\n<bytes>\r\n                                                   *)
bulklen(len) == 1 + countDigits(len) + 2 + len + 2

CRLF == << "CR", "LF" >>

(* The command at protocol level, built with sprintf and memcpy.           *)
Protocol(argv) ==
  LET bulk(arg) == << "$" >> \o sdsull2str(Len(arg)) \o CRLF \o arg \o CRLF
      from[i \in 0 .. Len(argv)] == IF i = 0 THEN << >> ELSE from[i - 1] \o bulk(argv[i])
  IN << "*" >> \o sdsull2str(Len(argv)) \o CRLF \o from[Len(argv)]

(* How many bytes are allocated for it.                                    *)
totlen(argv) ==
  LET from[i \in 0 .. Len(argv)] == IF i = 0 THEN 0 ELSE from[i - 1] + bulklen(Len(argv[i]))
  IN 1 + countDigits(Len(argv)) + 2 + from[Len(argv)]

redisFormatCommandArgv(argv) == Protocol(argv)

(* The same command built in a dynamic string that has the room from the   *)
(* start.                                                                  *)
redisFormatSdsCommandArgv(argv) ==
  LET start == sdscatfmt(sdsMakeRoomFor(sdsempty, totlen(argv)), "*", Len(argv))
      from[i \in 0 .. Len(argv)] ==
        IF i = 0 THEN start
        ELSE sdscatlen(sdscatlen(sdscatfmt(from[i - 1], "$", Len(argv[i])), argv[i]), CRLF)
  IN from[Len(argv)]

-------------------------------------------------------------------------------
intfmts == {"d", "i", "o", "u", "x", "X"}
doublefmts == {"e", "E", "f", "F", "g", "G", "a", "A"}
flags == {"#", "0", "-", "+", " "}

At(f, i) == IF i \in DOMAIN f THEN f[i] ELSE "NUL"
SkipAll(f, i, S) == Min2({j \in i .. Len(f) + 1 : j > Len(f) \/ f[j] \notin S})

(* Where the printf conversion that starts at f[1] = "%" ends: flags,      *)
(* width, precision, size, letter; 0 when it is none.  strchr also finds   *)
(* the NUL that ends a list, so a conversion cut off by the end of the     *)
(* format passes for one, and the loop goes on behind the terminator.      *)
Conversion(f) ==
  LET width == SkipAll(f, SkipAll(f, 2, flags), DOMAIN Digit)
      p == IF At(f, width) = "." THEN SkipAll(f, width + 1, DOMAIN Digit) ELSE width
      size == IF At(f, p) \in {"h", "l"} THEN IF At(f, p + 1) = At(f, p) THEN 2 ELSE 1 ELSE 0
  IN IF At(f, p) \in intfmts \cup doublefmts \cup {"NUL"} THEN p
     ELSE IF size > 0 /\ At(f, p + size) \in intfmts THEN p + size
     ELSE 0

InvalidFormat == << << "invalid" >> >>  \* no command, -2
Garbage == << "garbage" >>  \* an argument nobody passed
Overrun == << << "overrun" >> >>  \* what is in memory behind the format

From(f, i) == SubSeq(f, i, Len(f))

(* The arguments of the command: spaces separate them, whatever is         *)
(* interpolated belongs to the current one.  (What takes the place of a    *)
(* conversion of 14 characters and more is nothing.)                       *)
RECURSIVE Arguments(_, _, _, _, _)
Arguments(f, args, curarg, touched, argv) ==
  LET arg == IF args = << >> THEN Garbage ELSE args[1]
      Interpolate(i, bytes, rest) == Arguments(From(f, i), rest, curarg \o bytes, TRUE, argv)
      n == Conversion(f)
  IN IF f = << >> THEN IF touched THEN Append(argv, curarg) ELSE argv
     ELSE IF f[1] = " "
     THEN Arguments(Tail(f), args, << >>, FALSE, IF touched THEN Append(argv, curarg) ELSE argv)
     ELSE IF f[1] # "%" \/ Len(f) = 1 THEN Interpolate(2, << f[1] >>, args)
     ELSE IF f[2] \in {"s", "b"} THEN Interpolate(3, arg, From(args, 2))
     ELSE IF f[2] = "%" THEN Interpolate(3, << "%" >>, args)
     ELSE IF n = 0 THEN InvalidFormat
     ELSE IF n >= 14 THEN Interpolate(3, << >>, From(args, 2))
     ELSE IF n > Len(f) THEN Overrun
     ELSE Interpolate(n + 1, IF args = << >> THEN Garbage ELSE sdsull2str(arg), From(args, 2))

(* redisvFormatCommand: what the bytes of the command are built from.      *)
redisvFormatCommand(format, args) == Arguments(format, args, << >>, FALSE, << >>)
===============================================================================
