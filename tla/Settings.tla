------------------------------ MODULE Settings ------------------------------
(***************************************************************************)
(* The settings file of src/src/util/settings.h and settings.cpp: setValue *)
(* reads the whole file into a map, changes one entry, truncates the file  *)
(* and writes the map back, without any lock; getValue reads the file.     *)
(*                                                                         *)
(* A name is the sequence of its pieces, the dots among them.  The file is *)
(* a sequence of lines: [section] and key=value; blank lines are left out. *)
(* It fits into a stream's buffer, so it is read by one call, and written  *)
(* by one call when the stream is closed; opening it truncates it at once. *)
(* A missing file reads as an empty one, which the read creates.           *)
(***************************************************************************)
EXTENDS Naturals, SequencesExt

CONSTANTS
    Writers,   \* threads that call setValue
    Names,     \* the names they pass
    Order,     \* all names that occur, in the order of std::map
    Values,    \* the values they pass; other types throw before anything happens
    Word,      \* [Values -> Words]: what `ss << v; ss >> tmpstr` leaves of a value
    Empty,     \* the empty string
    Scrap,     \* what is left of a key that was cut in two
    MaxCalls   \* bound on the calls of setValue

ASSUME SettingsAssumption ==
    /\ Names \subseteq ToSet(Order) /\ IsInjective(Order)
    /\ MaxCalls \in Nat

VARIABLES
    file,    \* the lines of the file
    pc,      \* [Writers]: "idle", "read", "open"
    name,    \* [Writers]: the name being set
    map,     \* [Writers]: res, the settings it is about to write
    given,   \* history: the settings asked for so far
    torn,    \* history: two writers had the file open for writing at once
    calls    \* how many calls were made

vars == <<file, pc, name, map, given, torn, calls>>

NoSettings == [n \in {} |-> Empty]
Header(s) == [section |-> s]
Entry(k, v) == [key |-> k, value |-> v]
IsHeader(line) == DOMAIN line = {"section"}
\* f with n set to v.
Put(f, n, v) == [m \in DOMAIN f \cup {n} |-> IF m = n THEN v ELSE f[m]]

\* split(n, "."): the parts between the dots, empty ones included.
Split(n) ==
    FoldLeft(LAMBDA parts, c : IF c = "." THEN Append(parts, <<>>)
                               ELSE [parts EXCEPT ![Len(parts)] = Append(@, c)],
             << <<>> >>, n)

\* The parts after the first; no dot is put where nothing precedes it.
Key(n) == FoldLeft(LAMBDA k, part : IF k = <<>> THEN part ELSE k \o <<".">> \o part,
                   <<>>, Tail(Split(n)))

HasSection(n) == Len(Split(n)) >= 2

\* Mutant: only the first section gets its header.
AddEntryOneHeader(lines, n, v) ==
    (IF lines = <<>> THEN <<Header(Split(n)[1])>> ELSE lines) \o <<Entry(Key(n), v)>>

\* An entry, after its section's header unless that was printed before.
AddEntry(lines, n, v) ==
    lines \o (IF Header(Split(n)[1]) \in ToSet(lines) THEN <<>> ELSE <<Header(Split(n)[1])>>)
          \o <<Entry(Key(n), v)>>

\* write_ini: the entries in the map's order, up to the first invalid name.
write_ini(f) ==
    LET ns  == SelectSeq(Order, LAMBDA n : n \in DOMAIN f)
        bad == SelectInSeq(ns, LAMBDA n : ~HasSection(n))
    IN  FoldLeft(LAMBDA lines, n : AddEntry(lines, n, f[n]), <<>>,
                 IF bad = 0 THEN ns ELSE SubSeq(ns, 1, bad - 1))

\* Mutant: of two entries of one name the last one counts.
InsertLast(f, n, v) == Put(f, n, v)

\* local.insert: of two entries of one name the first one counts.
Insert(f, n, v) == IF n \in DOMAIN f THEN f ELSE Put(f, n, v)

\* read_ini: entries without section or key are passed over.
read_ini(lines) ==
    FoldLeft(LAMBDA acc, line :
                IF IsHeader(line) THEN [acc EXCEPT !.section = line.section]
                ELSE IF acc.section = <<>> \/ line.key = <<>> THEN acc
                ELSE [acc EXCEPT !.map = Insert(@, acc.section \o <<".">> \o line.key, line.value)],
             [section |-> <<>>, map |-> NoSettings], lines).map

\* getValue, on the lines of a file; without a default it has an arbitrary one.
getValue(lines, n, default) ==
    LET f == read_ini(lines)
    IN  IF n \in DOMAIN f /\ f[n] # Empty THEN f[n] ELSE default

-----------------------------------------------------------------------------
Init ==
    /\ file = <<>>
    /\ pc = [w \in Writers |-> "idle"]
    /\ name = [w \in Writers |-> <<>>]
    /\ map = [w \in Writers |-> NoSettings]
    /\ given = {}
    /\ torn = FALSE
    /\ calls = 0

\* setValue reads the file and puts the new entry into its map.
ReadFile(w, n, v) ==
    /\ pc[w] = "idle"
    /\ calls < MaxCalls /\ calls' = calls + 1
    /\ map' = [map EXCEPT ![w] = Put(read_ini(file), n, Word[v])]
    /\ name' = [name EXCEPT ![w] = n]
    /\ given' = given \cup {<<n, Word[v]>>}
    /\ pc' = [pc EXCEPT ![w] = "read"]
    /\ UNCHANGED <<file, torn>>

\* The output stream is opened, which truncates the file, or it throws.
Truncate(w) ==
    /\ pc[w] = "read"
    /\ \/ /\ file' = <<>>
          /\ pc' = [pc EXCEPT ![w] = "open"]
          /\ torn' = (torn \/ \E u \in Writers : pc[u] = "open")
          /\ UNCHANGED map
       \/ /\ pc' = [pc EXCEPT ![w] = "idle"]
          /\ map' = [map EXCEPT ![w] = NoSettings]
          /\ UNCHANGED <<file, torn>>
    /\ name' = [name EXCEPT ![w] = IF pc'[w] = "idle" THEN <<>> ELSE @]
    /\ UNCHANGED <<given, calls>>

(***************************************************************************)
(* What is left behind text written over the beginning of the lines f: f   *)
(* from some line on, behind what remains of a line that was cut.          *)
(***************************************************************************)
Remainders(f) ==
    {SubSeq(f, k, Len(f)) : k \in 1 .. Len(f) + 1}
      \cup {<<Entry(<<Scrap>>, f[k].value)>> \o SubSeq(f, k + 1, Len(f)) :
               k \in {i \in DOMAIN f : ~IsHeader(f[i])}}

\* write_ini, and the end of setValue, which closes the stream: the text goes
\* to the beginning of the file, over what another writer wrote meanwhile.
WriteFile(w) ==
    /\ pc[w] = "open"
    /\ \E rest \in Remainders(file) : file' = write_ini(map[w]) \o rest
    /\ pc' = [pc EXCEPT ![w] = "idle"]
    /\ map' = [map EXCEPT ![w] = NoSettings]
    /\ name' = [name EXCEPT ![w] = <<>>]
    /\ UNCHANGED <<given, torn, calls>>

\* The process dies: calls in progress are lost, the file stays as it is.
Crash ==
    /\ \E w \in Writers : pc[w] # "idle"
    /\ pc' = [w \in Writers |-> "idle"]
    /\ map' = [w \in Writers |-> NoSettings]
    /\ name' = [w \in Writers |-> <<>>]
    /\ UNCHANGED <<file, given, torn, calls>>

Next ==
    \/ \E w \in Writers : \/ \E n \in Names, v \in Values : ReadFile(w, n, v)
                          \/ Truncate(w) \/ WriteFile(w)
    \/ Crash

Spec == Init /\ [][Next]_vars

-----------------------------------------------------------------------------
\* The step in which w's call of setValue ends, having written the file.
Finishes(w) == pc[w] = "open" /\ pc'[w] = "idle" /\ file' # file

\* A section and a key, and no dot too many.
Proper(n) == HasSection(n) /\ <<>> \notin ToSet(Split(n))

(***************************************************************************)
(* When setValue returns, getValue finds the value, whatever other writers *)
(* and crashes did meanwhile: a call's own text always stands first, whole,*)
(* and read_ini takes the first of two entries.  An empty value reads as   *)
(* the default (value(), settings.h:74).                                   *)
(***************************************************************************)
ReadBack ==
    [][\A w \in Writers : Finishes(w) /\ Proper(name[w]) =>
          LET v == map[w][name[w]]
          IN  getValue(file', name[w], "default") = IF v = Empty THEN "default" ELSE v]_vars

(***************************************************************************)
(* read_ini reads what write_ini wrote: a call with a proper name that     *)
(* nobody interferes with leaves the entry it sets and all others it read. *)
(***************************************************************************)
RoundTrip ==
    [][\A w \in Writers : Finishes(w) /\ file = <<>> /\ Proper(name[w]) =>
          read_ini(file') = map[w]]_vars

(***************************************************************************)
(* No setting appears that nobody asked for, also in a file that is being  *)
(* written, or was when the process died: entries do not stray into other  *)
(* sections (up to the doubled dots that write_ini drops), unless two      *)
(* writers had the file open at once.                                      *)
(***************************************************************************)
NoStray ==
    ~torn => \A n \in DOMAIN read_ini(file) :
        \E g \in given : /\ SelectSeq(Split(g[1]), LAMBDA p : p # <<>>) = Split(n)
                         /\ g[2] = read_ini(file)[n]
=============================================================================
