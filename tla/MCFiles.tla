-------------------------------- MODULE MCFiles --------------------------------
(***************************************************************************)
(* Small instances of the file system and of the character output behind   *)
(* it: names, the data of a file, the kernel log, the screen, and numbers  *)
(* with the division that they need.  Each behaviour runs one of them and  *)
(* leaves the others as they began.                                        *)
(***************************************************************************)
EXTENDS Vfs, Initrd, KernelLog, Vga, Qdivrem, Numbers, TLC

VARIABLE part

allVars == <<part, vfsVars, initrdVars, klogVars, vgaVars, qdivVars, numVars>>

\* One of the initial states of Numbers.
EmptyText ==
  /\ num = -1 /\ fmt = Plain /\ phase_n = "scan" /\ text_in = << >> /\ radix = 10 /\ signed = TRUE
  /\ at_char = 1 /\ neg = FALSE /\ any = 0 /\ acc = 0 /\ returned = 0 /\ endptr = 0

\* Of a part that is not run, one initial state is enough.
MCInit ==
  /\ part \in {"names", "data", "log", "screen", "division", "numbers"}
  /\ VfsInit
  /\ InitrdInit /\ (part = "data" \/ block_size = 0)
  /\ KLogInit /\ (part = "log" \/ locked)
  /\ VgaInit
  /\ QdivInit /\ (part = "division" \/ (uq = 0 /\ vq = 1))
  /\ IF part = "numbers" THEN NumbersInit ELSE EmptyText

MCNext ==
  /\ \/ part = "names" /\ VfsNext /\ UNCHANGED <<initrdVars, klogVars, vgaVars, qdivVars, numVars>>
     \/ part = "data" /\ InitrdNext /\ UNCHANGED <<vfsVars, klogVars, vgaVars, qdivVars, numVars>>
     \/ part = "log" /\ KLogNext /\ UNCHANGED <<vfsVars, initrdVars, vgaVars, qdivVars, numVars>>
     \/ part = "screen" /\ VgaNext /\ UNCHANGED <<vfsVars, initrdVars, klogVars, qdivVars, numVars>>
     \/ part = "division" /\ QdivNext /\ UNCHANGED <<vfsVars, initrdVars, klogVars, vgaVars, numVars>>
     \/ part = "numbers" /\ NumbersNext /\ UNCHANGED <<vfsVars, initrdVars, klogVars, vgaVars, qdivVars>>
  /\ UNCHANGED part

MCSpec == MCInit /\ [][MCNext]_allVars

\* Names, descriptors and writers are interchangeable.
MCSymmetry == Permutations(Names) \cup Permutations(Fds) \cup Permutations(Writers)

\* Four octal digits: a sample of dividends and divisors that needs both
\* corrections of the estimated digit.
MCDividends == {4095 - 62 * k : k \in 0..66} \cup {0, 2048}
MCDivisors == {1 + 7 * k : k \in 0..584} \cup {2048, 4095}

\* Texts of up to four characters: digits, a hexadecimal one, x, space and signs.
MCStrings == UNION {[1..len -> {0, 1, 7, 10, LETTER_X, SPACE, MINUS, PLUS}] : len \in 0..4}
=============================================================================
