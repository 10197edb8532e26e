-------------------------------- MODULE Names --------------------------------
(***************************************************************************)
(* The routines that work on characters: parse, which cuts a command into  *)
(* a file name and arguments, read_dentry_by_name, which compares names,   *)
(* and dir_read, which copies one out.  A string is a sequence of its      *)
(* characters without the terminator, an array a function from its indices *)
(* with Nul where nothing was written.                                     *)
(*                                                                         *)
(* All of it runs with IF clear: every call is one step.                   *)
(***************************************************************************)
EXTENDS Integers, Sequences, FiniteSets, SequencesExt, FiniteSetsExt

CONSTANTS
  NAME_SIZE,   (* characters of an entry's name; 32 in the code            *)
  ARG_SIZE,    (* bytes of an argument buffer; 128 in the code             *)
  BUF_SIZE,    (* bytes of the buffer a program lists the directory in     *)
  names,       (* the names in the slots of the directory, in order        *)
  dir_count,   (* how many of them, the first ones, are its entries        *)
  Commands,    (* the commands programs execute                            *)
  FileNames,   (* the names they open                                      *)
  Readers,     (* the descriptors that are opened on the directory         *)
  Reads        (* the byte counts of directory reads                       *)

Space == " "
Nul   == "nul"

MAX_FILE  == Len(names)
NotOpen   == -1

(* The name in a slot has at most NAME_SIZE characters and may fill its    *)
(* field; nothing is said of the slots past dir_count, whose names may be  *)
(* empty or left over from a file that was removed.                        *)
(* A longer command line than ARG_SIZE runs over the buffers of parse: the *)
(* terminal gives no program one.                                          *)
ASSUME NamesAssumption ==
  /\ NAME_SIZE \in Nat \ {0} /\ ARG_SIZE \in Nat \ {0} /\ BUF_SIZE \in Nat \ {0}
  /\ names \in Seq(Seq(STRING))
  /\ \A k \in DOMAIN names : /\ Len(names[k]) \in 0 .. NAME_SIZE
                            /\ {Space, Nul} \intersect ToSet(names[k]) = {}
  /\ dir_count \in 0 .. MAX_FILE
  /\ Commands \subseteq Seq(STRING) /\ FileNames \subseteq Seq(STRING)
  /\ \A c \in Commands : Len(c) <= ARG_SIZE
  /\ \A c \in Commands \union FileNames : Nul \notin ToSet(c)
  /\ Reads \subseteq 0 .. BUF_SIZE

VARIABLES
  found,               (* the entry the last look-up returned, 0 for none  *)
  call,                (* history: the call that made it and its string    *)
  arg_buf,             (* the global argument buffer                       *)
  directory_location,
  buf,                 (* the caller's buffer                              *)
  result,              (* what the last dir_read returned                  *)
  listed,              (* history: who was given what since the last end   *)
  began                (* history: where each reader began, or NotOpen     *)

lookupVars  == <<found, call, arg_buf>>
listingVars == <<directory_location, buf, result, listed, began>>
vars == <<lookupVars, listingVars>>

ArgIndex  == 0 .. ARG_SIZE - 1
BufIndex  == 0 .. BUF_SIZE - 1
NoArgs    == [k \in ArgIndex |-> Nul]

Init ==
  /\ found = 0 /\ call = [name |-> "none", string |-> <<>>]
  /\ arg_buf = NoArgs
  /\ directory_location = 0 /\ result = 0 /\ listed = <<>>
  /\ began = [r \in Readers |-> NotOpen]
  /\ \E byte \in {Nul, "?"} : buf = [k \in BufIndex |-> byte]

-----------------------------------------------------------------------------
(* parse                                                                   *)

(* One turn of its loop: i is the index of the next character and          *)
(* space_index that of the last space, -1 before the first.  stop is the   *)
(* break that cuts a long name, and with it the arguments.                 *)
ParseStep(p, c) ==
  CASE p.stop -> p
    [] ~ p.stop /\ c = Space -> [p EXCEPT !.i = @ + 1, !.space_index = p.i]
    [] ~ p.stop /\ c # Space /\ p.space_index = -1 ->
         IF p.i > NAME_SIZE - 1 THEN [p EXCEPT !.stop = TRUE]
         ELSE [p EXCEPT !.i = @ + 1, !.file_name = Append(@, c)]
    [] OTHER -> [p EXCEPT !.i = @ + 1, !.argument[p.i - p.space_index - 1] = c]

ParseStart(argument) ==
  [i |-> 0, space_index |-> -1, stop |-> FALSE, file_name |-> <<>>, argument |-> argument]

(* The loop over c, after each number of characters.                       *)
Turns(c, argument) ==
  LET p[n \in 0 .. Len(c)] ==
        IF n = 0 THEN ParseStart(argument) ELSE ParseStep(p[n - 1], c[n])
  IN  p

(* A mutant: the arguments of the command before are not cleared.          *)
parse_NotCleared(c) == Turns(c, arg_buf)[Len(c)]

parse(c) == Turns(c, NoArgs)[Len(c)]

-----------------------------------------------------------------------------
(* read_dentry_by_name                                                     *)

(* The characters strncmp sees of a string: the terminator ends it.        *)
CharAt(s, k) == IF k <= Len(s) THEN s[k] ELSE Nul

(* A mutant: the end of fname ends the comparison, whatever the entry has. *)
SameName_Prefix(fname, name) == \A k \in 1 .. Len(fname) : fname[k] = CharAt(name, k)

(* strncmp over NAME_SIZE characters returns 0.                            *)
SameName(fname, name) == \A k \in 1 .. NAME_SIZE : CharAt(fname, k) = CharAt(name, k)

(* The first slot that matches, past dir_count too; the empty name is      *)
(* refused, whatever slot is empty.                                        *)
Lookup(fname) ==
  IF fname = <<>> THEN 0
  ELSE SelectInSeq(names, LAMBDA name : SameName(fname, name))

(* execute parses into arg_buf and looks the file name up; what follows    *)
(* is in Syscalls.                                                         *)
Execute(c) ==
  /\ arg_buf' = parse(c).argument
  /\ found' = Lookup(parse(c).file_name)
  /\ call' = [name |-> "execute", string |-> c]
  /\ UNCHANGED listingVars

(* open looks up what it is given.                                         *)
Open(fname) ==
  /\ found' = Lookup(fname)
  /\ call' = [name |-> "open", string |-> fname]
  /\ UNCHANGED <<arg_buf, listingVars>>

-----------------------------------------------------------------------------
(* The directory                                                           *)

(* dir_open does nothing: a reader begins where the one position is.       *)
DirOpen(r) ==
  /\ began[r] = NotOpen
  /\ began' = [began EXCEPT ![r] = directory_location]
  /\ UNCHANGED <<directory_location, buf, result, listed, lookupVars>>

(* A mutant: what is left of the buffer is not filled with zeros.          *)
strncpy_NoPadding(dest, src, n) ==
  [k \in DOMAIN dest |-> IF k < n /\ k < Len(src) THEN src[k + 1] ELSE dest[k]]

strncpy(dest, src, n) ==
  [k \in DOMAIN dest |-> IF k < n THEN CharAt(src, k + 1) ELSE dest[k]]

(* strlen of the caller's buffer.  With no terminator in it the count goes *)
(* on in the caller's memory: to its end, here.                            *)
strlen(b) ==
  LET ends == { k \in BufIndex : b[k] = Nul }
  IN  IF ends = {} THEN BUF_SIZE ELSE CHOOSE k \in ends : \A j \in ends : k <= j

Smaller(m, n) == IF m < n THEN m ELSE n

AtEnd_Early == directory_location >= dir_count - 1     (* a mutant *)
AtEnd == directory_location >= dir_count

(* One position serves all readers.  After the end they all begin anew.    *)
DirRead(r, nbytes) ==
  /\ began[r] # NotOpen
  /\ \/ /\ AtEnd
        /\ directory_location' = 0 /\ result' = 0 /\ listed' = <<>>
        /\ began' = [q \in Readers |-> IF began[q] = NotOpen THEN NotOpen ELSE 0]
        /\ UNCHANGED buf
     \/ /\ ~ AtEnd
        /\ buf' = strncpy(buf, names[directory_location + 1], Smaller(nbytes, NAME_SIZE))
        /\ directory_location' = directory_location + 1
        /\ result' = strlen(buf')
        /\ listed' = Append(listed, [reader |-> r, name |-> names[directory_location + 1]])
        /\ UNCHANGED began
  /\ UNCHANGED lookupVars

-----------------------------------------------------------------------------
Next ==
  \/ \E c \in Commands : Execute(c)
  \/ \E fname \in FileNames : Open(fname)
  \/ \E r \in Readers : DirOpen(r) \/ \E nbytes \in Reads : DirRead(r, nbytes)

Spec == Init /\ [][Next]_vars

-----------------------------------------------------------------------------
(* Properties                                                              *)

Spaces(c) == { k \in DOMAIN c : c[k] = Space }

(* The word after position k of a command, and the first one.              *)
WordLength(c, k) == Cardinality({ j \in k + 1 .. Len(c) : \A l \in k + 1 .. j : c[l] # Space })
FirstWord(c) == SubSeq(c, 1, WordLength(c, 0))

(* The program that is executed and the file that is opened is the first   *)
(* slot with the name asked for, the first word of a command, cut to what  *)
(* an entry can hold; a name that is a part of another finds nothing.      *)
LooksUpName ==
  LET asked == IF call.name = "execute" THEN FirstWord(call.string) ELSE call.string
      cut   == SubSeq(asked, 1, Smaller(Len(asked), NAME_SIZE))
  IN  IF found = 0 THEN asked = <<>> \/ cut \notin ToSet(names)
      ELSE names[found] = cut /\ \A k \in 1 .. found - 1 : names[k] # cut

(* A command with one argument leaves it in the argument buffer, from its  *)
(* first byte on, and nothing of the commands before.  This is not said of *)
(* a name that is cut, which loses its argument, nor of more words than    *)
(* one, which are laid over each other.                                    *)
ArgumentWords(c) == { s \in Spaces(c) : WordLength(c, s) > 0 }

HoldsArguments ==
  LET c == call.string
  IN  /\ call.name = "execute"
      /\ WordLength(c, 0) <= NAME_SIZE
      /\ \A s, t \in ArgumentWords(c) : s = t
      =>
      \A k \in ArgIndex :
        /\ \A s \in ArgumentWords(c) :
             arg_buf[k] = IF k < WordLength(c, s) THEN c[s + 1 + k] ELSE Nul
        /\ ArgumentWords(c) = {} => arg_buf[k] = Nul

(* A read of the directory returns the length of a name that is shorter    *)
(* than what was asked for, whatever the buffer held.  Behind a name that  *)
(* is not, it counts what earlier reads left, up to the next zero.         *)
CountsName ==
  [][\A r \in Readers, nbytes \in Reads :
       DirRead(r, nbytes) /\ listed' # <<>> =>
         LET n    == Smaller(nbytes, NAME_SIZE)
             name == Last(listed').name
         IN  IF Len(name) < n THEN result' = Len(name)
             ELSE /\ result' \in n .. BUF_SIZE
                  /\ \A k \in n .. result' - 1 : buf[k] # Nul
                  /\ result' = BUF_SIZE \/ buf[result'] = Nul]_vars

(* Between two reads that return no name the readers together are given    *)
(* every entry once and in order, and none is given an entry from before   *)
(* the position it began at: a reader has listed the whole directory if it *)
(* began at 0 and no other was given an entry since.                       *)
ListsDirectory ==
  [][listed # <<>> /\ listed' = <<>> =>
       /\ Len(listed) = dir_count
       /\ \A k \in 1 .. dir_count :
            listed[k].name = names[k] /\ began[listed[k].reader] \in 0 .. k - 1]_vars

=============================================================================
