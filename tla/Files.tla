-------------------------------- MODULE Files --------------------------------
(***************************************************************************)
(* Functions in memory and in a file: the calls that build one (chunk.cc,     *)
(* function.cc), and Save and Load (value.cc, chunk.cc, function.cc) through  *)
(* BytecodeWriter and BytecodeReader.                                         *)
(*                                                                          *)
(* A file is a sequence of bytes; a byte is <<type, value, i>>, the i-th of   *)
(* the bytes of a value of that type.  What a reader gets that does not ask   *)
(* for what was written there is Garbage.                                    *)
(***************************************************************************)
EXTENDS Value, SequencesExt

CONSTANTS
  Const,          \* the constants that a function may have
  Word,           \* the words of its code: opcodes and operands
  Name,           \* its names, as sequences of characters
  MaxConsts, MaxWords,   \* bounds: how many it has
  MaxSaved,       \* bound: how many functions are saved to one file
  Garbage         \* what is none of the values

\* What Save can write: no objects, and strings have their characters in order.
Savable(v) ==
  \/ v = Null
  \/ v = <<v[1], v[2]>> /\ (IsBool(v) \/ IsNum(v) \/ IsCallable(v))
  \/ v = <<v[1], v[2]>> /\ IsStr(v) /\ v[2] \in Seq(Range(v[2]))

ASSUME FilesAssumption ==
  /\ \A v \in Const : Savable(v)
  /\ \A name \in Name : name \in Seq(Range(name))
  /\ Garbage \notin Nat

VARIABLES
  fn,             \* the function that is being built
  file,           \* the bytes in the file
  saved,          \* the functions that they stand for
  pos,            \* the reader's place: the bytes that it has read
  loaded          \* what it made of them

vars == <<fn, file, saved, pos, loaded>>

-----------------------------------------------------------------------------
(* bytecode_stream.h                                                        *)

Width == [uint8 |-> 1, int32 |-> 4, bool |-> 1, double |-> 8, char |-> 1]

Write(type, v) == [i \in 1..Width[type] |-> <<type, v, i>>]

\* The length, then the characters.
WriteString(s) == Write("int32", Len(s)) \o FlattenSeq([i \in DOMAIN s |-> Write("char", s[i])])

\* A reader that has read at bytes, and what it has got from the last of them.
Reader(at, v) == [at |-> at, v |-> v]

Read(type, at) ==
  LET bytes == SubSeq(file, at + 1, Min({at + Width[type], Len(file)}))
      v == IF bytes = <<>> THEN Garbage ELSE bytes[1][2]
  IN  Reader(at + Width[type], IF bytes = Write(type, v) THEN v ELSE Garbage)

\* n of what load reads, load being a function of the place, one after the other;
\* none if n is no number.
ReadMany(load, n, at) ==
  LET read[i \in 0 .. n] ==
        IF i = 0 THEN Reader(at, <<>>)
        ELSE LET before == read[i - 1]
                 next == load[before.at]
             IN  Reader(next.at, Append(before.v, next.v))
  IN  IF n = Garbage THEN Reader(at, <<>>) ELSE read[n]

ReadString(at) ==
  LET len == Read("int32", at)
  IN  ReadMany([p \in Nat |-> Read("char", p)], len.v, len.at)

-----------------------------------------------------------------------------
(* Value::Save and Load                                                      *)

\* static_cast<uint8_t>(type_)
Tag == [null |-> 0, bool |-> 1, num |-> 2, str |-> 3, obj |-> 4, callable |-> 5]

\* Variant: the tag of a boolean says it all.
SaveValueBug(v) ==
  Write("uint8", Tag[v[1]]) \o
    CASE IsNum(v) -> Write("double", v[2]) [] IsStr(v) -> WriteString(v[2]) [] OTHER -> <<>>

SaveValue(v) ==
  Write("uint8", Tag[v[1]]) \o
    CASE IsBool(v) -> Write("bool", v[2])
      [] IsNum(v)  -> Write("double", v[2])
      [] IsStr(v)  -> WriteString(v[2])
      [] OTHER     -> <<>>

\* Anything else is null: no tag of another type has more behind it.
LoadValue(at) ==
  LET tag == Read("uint8", at)
      as(type, got) == Reader(got.at, <<type, got.v>>)
  IN  CASE tag.v = Tag.bool -> as("bool", Read("bool", tag.at))
        [] tag.v = Tag.num  -> as("num", Read("double", tag.at))
        [] tag.v = Tag.str  -> as("str", ReadString(tag.at))
        [] OTHER            -> Reader(tag.at, Null)

-----------------------------------------------------------------------------
(* Chunk and Function: Save and Load                                         *)

Ints(s) == FlattenSeq([i \in DOMAIN s |-> Write("int32", s[i])])

\* The line table is as long as the code.
SaveChunk(f) ==
  Write("int32", Len(f.consts)) \o FlattenSeq([i \in DOMAIN f.consts |-> SaveValue(f.consts[i])])
    \o Write("int32", Len(f.code)) \o Ints(f.code)
    \o Write("int32", Len(f.code)) \o Ints(f.lines)

LoadInts(at) ==
  LET size == Read("int32", at)
  IN  ReadMany([p \in Nat |-> Read("int32", p)], size.v, size.at)

SaveFunction(f) ==
  WriteString(f.name) \o Write("int32", f.arity) \o Write("int32", f.localCount) \o SaveChunk(f)

LoadFunction(at) ==
  LET name == ReadString(at)
      arity == Read("int32", name.at)
      count == Read("int32", arity.at)
      size == Read("int32", count.at)
      consts == ReadMany([p \in Nat |-> LoadValue(p)], size.v, size.at)
      code == LoadInts(consts.at)
      lines == LoadInts(code.at)
  IN  Reader(lines.at, [name |-> name.v, arity |-> arity.v, localCount |-> count.v,
                        consts |-> consts.v, code |-> code.v, lines |-> lines.v])

-----------------------------------------------------------------------------
(* Building one                                                              *)

\* The constructor of Function, which makes an empty chunk.
NewFunction(name, arity) ==
  [name |-> name, arity |-> arity, localCount |-> 0, consts |-> <<>>, code |-> <<>>, lines |-> <<>>]

\* The bound is not reached, and no reader has opened the file.
Building == Len(saved) < MaxSaved /\ pos = 0

\* Emit and EmitI32: a word, and the line that it comes from.
EmitWord(w, srcLine) ==
  /\ Building /\ Len(fn.code) < MaxWords
  /\ fn' = [fn EXCEPT !.code = Append(@, w), !.lines = Append(@, srcLine)]
  /\ UNCHANGED <<file, saved, pos, loaded>>

\* Constants are kept as they come, equal or not.
AddConst(v) ==
  /\ Building /\ Len(fn.consts) < MaxConsts
  /\ fn' = [fn EXCEPT !.consts = Append(@, v)]
  /\ UNCHANGED <<file, saved, pos, loaded>>

PatchI32(index, w) ==
  /\ Building
  /\ fn' = [fn EXCEPT !.code[index] = w]
  /\ UNCHANGED <<file, saved, pos, loaded>>

SetLocalCount(count) ==
  /\ Building
  /\ fn' = [fn EXCEPT !.localCount = count]
  /\ UNCHANGED <<file, saved, pos, loaded>>

\* Save it to the file's end and begin another.
Save(name, arity) ==
  /\ Building
  /\ file' = file \o SaveFunction(fn)
  /\ saved' = Append(saved, fn)
  /\ fn' = NewFunction(name, arity)
  /\ UNCHANGED <<pos, loaded>>

Load ==
  /\ Len(loaded) < Len(saved)
  /\ LET r == LoadFunction(pos)
     IN  pos' = r.at /\ loaded' = Append(loaded, r.v)
  /\ UNCHANGED <<fn, file, saved>>

Init ==
  /\ \E name \in Name : fn = NewFunction(name, Len(name))
  /\ file = <<>> /\ saved = <<>> /\ pos = 0 /\ loaded = <<>>

Next ==
  \/ \E w \in Word, srcLine \in 1..2 : EmitWord(w, srcLine)
  \/ \E v \in Const : AddConst(v)
  \/ \E i \in DOMAIN fn.code, w \in Word : PatchI32(i, w)
  \/ SetLocalCount(1)
  \/ \E name \in Name : Save(name, Len(name))
  \/ Load

Spec == Init /\ [][Next]_vars

-----------------------------------------------------------------------------
(* Properties                                                               *)

\* Once loaded, all constants are what they were, but callables are null.
AsLoaded(f) ==
  [f EXCEPT !.consts = [i \in DOMAIN @ |-> IF IsCallable(@[i]) THEN Null ELSE @[i]]]

\* Functions come back from a file as they were saved, but for the callables among
\* their constants, of which only the tag is saved; one behind the other, so that
\* the reader stands where the writer stood when it had saved them (Function,
\* Chunk and Value: Save and Load).
RoundTrip ==
  /\ loaded = [i \in DOMAIN loaded |-> AsLoaded(saved[i])]
  /\ pos = Len(FlattenSeq([i \in DOMAIN loaded |-> SaveFunction(saved[i])]))
=============================================================================
