------------------------------- MODULE EdSet -------------------------------
(***************************************************************************)
(* The ed-set command (src/bin/ed-set.c): parse the command line with      *)
(* getopt(argc, argv, ":hemi:"), take the cache path, the key and an       *)
(* optional object file from the operands, read the object, open the      *)
(* cache and create the object.  The usage text documents                 *)
(*                                                                         *)
(*     ed-set [-e EXP] [-m FILE] [-i PATH] PATH KEY [FILE]                 *)
(*                                                                         *)
(* One behaviour is one invocation: argv is fixed by Init and every step  *)
(* is one getopt call or one library call of main.  Paths, keys and       *)
(* numbers are model values; the contents of a file are its path.         *)
(*                                                                         *)
(* getopt is the C library's, and an option whose letter is not followed *)
(* by ':' in the option string takes no argument.  The C library the tool *)
(* is built with decides the rest, so `libc` is chosen in Init: glibc     *)
(* moves operands behind the options and resets optarg to NULL on each   *)
(* call; BSD and musl getopt stop at the first operand and leave the     *)
(* previous optarg in place.  ed_input_fread    *)
(* reads standard input for a NULL path (line 66 relies on it); reading   *)
(* it a second time yields the empty remainder.  Library calls that can   *)
(* fail (ed_input_fread, ed_cache_open, ed_create) fail or succeed        *)
(* nondeterministically.                                                  *)
(***************************************************************************)
EXTENDS Integers, Sequences

CONSTANTS
  Path,      \* operand words that are not numbers: files, keys
  Num,       \* operand words strtol accepts whole
  NULL,      \* the null pointer
  Stdin,     \* the contents of standard input
  Eof,       \* standard input read a second time
  MaxArgs    \* longest argument vector

Opt == {"-e", "-m", "-i", "-h", "-q"}   \* "-q": a letter not in ":hemi:"
Word == Path \cup Num
Token == Opt \cup Word
Argv == UNION { [1 .. n -> Token] : n \in 0 .. MaxArgs }

ASSUME Path \cap Num = {} /\ NULL \notin Word /\ MaxArgs \in Nat

VARIABLES
  argv,      \* the arguments after argv[0]
  libc,      \* "glibc" or "bsd": what getopt leaves in optarg
  pc,        \* "opt", "data", "open", "create", "exit"
  optind,    \* index of the next argument getopt looks at
  ops,       \* the operands getopt has moved behind the options
  optarg,
  attr,      \* EdObjectAttr: [expiry, key]
  cfg,       \* EdConfig: [cache, index]
  meta,      \* EdInput meta: what was read, or NULL
  data,      \* EdInput data
  stdin,     \* TRUE while standard input is unread
  status,    \* exit status: NULL while running, 0, 1 or "SIGSEGV"
  created    \* the object ed_create made, or NULL

vars == <<argv, libc, pc, optind, ops, optarg, attr, cfg, meta, data, stdin,
          status, created>>

Init ==
  /\ argv \in Argv
  /\ libc \in {"glibc", "bsd"}
  /\ pc = "opt"
  /\ optind = 1
  /\ ops = <<>>
  /\ optarg = NULL
  /\ attr = [expiry |-> -1, key |-> NULL]
  /\ cfg = [cache |-> NULL, index |-> NULL]
  /\ meta = NULL
  /\ data = NULL
  /\ stdin = TRUE
  /\ status = NULL
  /\ created = NULL

\* errx/errc: leave main with status 1.
Fail ==
  /\ pc' = "exit"
  /\ status' = 1

\* ed_input_fread(in, path, max): the file's contents, standard input for
\* a NULL path.
Source(path) == IF path /= NULL THEN path ELSE IF stdin THEN Stdin ELSE Eof
Drain(path) == stdin' = (stdin /\ path /= NULL)

\* The optarg getopt leaves for an option declared without an argument.
NoArg == IF libc = "glibc" THEN NULL ELSE optarg

Tok == argv[optind]
Scanning == pc = "opt" /\ optind <= Len(argv)

\* GNU getopt skips an operand, to be returned behind the options.
Operand ==
  /\ Scanning
  /\ libc = "glibc"
  /\ Tok \in Word
  /\ ops' = Append(ops, Tok)
  /\ optind' = optind + 1
  /\ UNCHANGED <<argv, libc, pc, optarg, attr, cfg, meta, data, stdin, status, created>>

\* case 'e': attr.expiry = strtol(optarg, &end, 10); a NULL optarg is
\* dereferenced, a word with trailing characters is rejected.
OptE ==
  /\ Scanning
  /\ Tok = "-e"
  /\ optind' = optind + 1
  /\ optarg' = NoArg
  /\ \/ /\ optarg' = NULL
        /\ pc' = "exit"
        /\ status' = "SIGSEGV"
        /\ UNCHANGED attr
     \/ /\ optarg' \in Num
        /\ attr' = [attr EXCEPT !.expiry = optarg']
        /\ UNCHANGED <<pc, status>>
     \/ /\ optarg' \notin Num \cup {NULL}
        /\ Fail
        /\ UNCHANGED attr
  /\ UNCHANGED <<argv, libc, ops, cfg, meta, data, stdin, created>>

\* case 'm': ed_input_fread(&meta, optarg, UINT16_MAX), errc on failure.
OptM ==
  /\ Scanning
  /\ Tok = "-m"
  /\ optind' = optind + 1
  /\ optarg' = NoArg
  /\ \/ /\ meta' = Source(optarg')
        /\ Drain(optarg')
        /\ UNCHANGED <<pc, status>>
     \/ /\ Fail
        /\ UNCHANGED <<meta, stdin>>
  /\ UNCHANGED <<argv, libc, ops, attr, cfg, data, created>>

\* case 'i': "i:" takes the next argument, whatever it looks like.
OptI ==
  /\ Scanning
  /\ Tok = "-i"
  /\ optind < Len(argv)
  /\ optind' = optind + 2
  /\ optarg' = argv[optind + 1]
  /\ cfg' = [cfg EXCEPT !.index = optarg']
  /\ UNCHANGED <<argv, libc, pc, ops, attr, meta, data, stdin, status, created>>

\* case ':': "-i" is the last argument.
OptMissing ==
  /\ Scanning
  /\ Tok = "-i"
  /\ optind = Len(argv)
  /\ Fail
  /\ UNCHANGED <<argv, libc, optind, ops, optarg, attr, cfg, meta, data, stdin, created>>

\* case 'h': print the usage and return 0; case '?': an unknown letter.
OptH ==
  /\ Scanning
  /\ Tok \in {"-h", "-q"}
  /\ pc' = "exit"
  /\ status' = IF Tok = "-h" THEN 0 ELSE 1
  /\ UNCHANGED <<argv, libc, optind, ops, optarg, attr, cfg, meta, data, stdin, created>>

\* getopt returns -1, at the end of argv or, for BSD getopt, at the first
\* operand: the operands are the skipped ones followed by argv[optind..];
\* the first two are the cache path and the key (lines 53-64).
Operands ==
  /\ pc = "opt"
  /\ IF optind > Len(argv) THEN TRUE ELSE libc = "bsd" /\ Tok \in Word
  /\ ops' = ops \o SubSeq(argv, optind, Len(argv))
  /\ IF Len(ops') < 2
       THEN Fail /\ UNCHANGED <<cfg, attr>>
       ELSE /\ pc' = "data"
            /\ cfg' = [cfg EXCEPT !.cache = ops'[1]]
            /\ attr' = [attr EXCEPT !.key = ops'[2]]
            /\ UNCHANGED status
  /\ UNCHANGED <<argv, libc, optind, optarg, meta, data, stdin, created>>

\* ed_input_fread(&data, argc ? argv[0] : NULL, UINT32_MAX).
ReadData ==
  /\ pc = "data"
  /\ LET path == IF Len(ops) > 2 THEN ops[3] ELSE NULL IN
       \/ /\ data' = Source(path)
          /\ Drain(path)
          /\ pc' = "open"
          /\ UNCHANGED status
       \/ /\ Fail
          /\ UNCHANGED <<data, stdin>>
  /\ UNCHANGED <<argv, libc, optind, ops, optarg, attr, cfg, meta, created>>

\* ed_cache_open(&cache, &cfg), errx on failure.
OpenCache ==
  /\ pc = "open"
  /\ \/ pc' = "create" /\ UNCHANGED status
     \/ Fail
  /\ UNCHANGED <<argv, libc, optind, ops, optarg, attr, cfg, meta, data, stdin, created>>

\* ed_create with attr.meta = meta.data, then ed_cache_close and return.
Create ==
  /\ pc = "create"
  /\ pc' = "exit"
  /\ \/ /\ created' = [cache |-> cfg.cache, index |-> cfg.index, key |-> attr.key,
                       expiry |-> attr.expiry, meta |-> meta, data |-> data]
        /\ status' = 0
     \/ /\ status' = 1
        /\ UNCHANGED created
  /\ UNCHANGED <<argv, libc, optind, ops, optarg, attr, cfg, meta, data, stdin>>

Next ==
  \/ Operand \/ OptE \/ OptM \/ OptI \/ OptMissing \/ OptH
  \/ Operands \/ ReadData \/ OpenCache \/ Create

\* An invocation ends; ed-set is run once.
Spec == Init /\ [][Next]_vars

-----------------------------------------------------------------------------
(***************************************************************************)
(* The object an argument vector asks for when it is written as the usage *)
(* line documents: options first, each followed by its argument, then     *)
(* PATH KEY [FILE]; NULL when the vector does not follow the usage line.  *)
(***************************************************************************)
OptArg == [e |-> Num, m |-> Word, i |-> Word]

RECURSIVE Usage(_, _)
Usage(as, o) ==
  IF as /= <<>> /\ Head(as) \in {"-e", "-m", "-i"}
  THEN LET f == IF Head(as) = "-e" THEN "e" ELSE IF Head(as) = "-m" THEN "m" ELSE "i"
       IN IF Len(as) > 1 /\ as[2] \in OptArg[f]
          THEN Usage(SubSeq(as, 3, Len(as)), [o EXCEPT ![f] = as[2]])
          ELSE NULL
  ELSE IF Len(as) \in {2, 3} /\ \A j \in 1 .. Len(as) : as[j] \in Word
  THEN [cache |-> as[1], index |-> o.i, key |-> as[2],
        expiry |-> IF o.e = NULL THEN -1 ELSE o.e,
        meta |-> o.m, data |-> IF Len(as) = 3 THEN as[3] ELSE Stdin]
  ELSE NULL

Asked == Usage(argv, [e |-> NULL, m |-> NULL, i |-> NULL])

(***************************************************************************)
(* ed-set run as its usage line documents does what the line says: it     *)
(* never crashes, and when it exits 0 it created exactly the object the   *)
(* arguments name (cache, index, key, expiry, meta data, contents).  This *)
(* is about the option string ":hemi:" at ed-set.c:37 against the usage   *)
(* text at ed-set.c:12.                                                   *)
(***************************************************************************)
DocumentedUsage ==
  Asked /= NULL =>
    /\ status /= "SIGSEGV"
    /\ created /= NULL => created = Asked
====
