--------------------------- MODULE PigeonChannels ---------------------------
(***************************************************************************)
(* What the tables of the generated channels (the messages.g.cc of the      *)
(* plugins) are made of.                                                   *)
(*                                                                         *)
(* A channel carries one method of a host API.  Its handler unpacks the     *)
(* arguments, calls the method and replies with its result or its error.   *)
(* Of a value the tables keep the class that the codec of the API has to    *)
(* know, or that it has none (Plain).                                      *)
(***************************************************************************)
EXTENDS Naturals, Sequences

Plain == "plain"
Void == "void"

\* An argument that is absent is refused (Req), is passed on as a null pointer
\* (Opt), or makes the cast to its class throw although the method takes a
\* pointer that may be null (Cast).
Req(class)  == [class |-> class, absent |-> "refused", list |-> FALSE]
Opt(class)  == [class |-> class, absent |-> "null", list |-> FALSE]
Cast(class) == [class |-> class, absent |-> "throws", list |-> FALSE]

\* A class: the fields its ToEncodableList writes, and the fields its
\* FromEncodableList reads.  A field without a class is always there (Must) or
\* may be null (May); an object is a list within the list (Part, OptPart), or a
\* value for the codec (Req).
Must == Req(Plain)
May  == Opt(Plain)
Part(class)    == [Req(class) EXCEPT !.list = TRUE]
OptPart(class) == [Opt(class) EXCEPT !.list = TRUE]

Class(class, written, read) ==
    [class |-> class, written |-> written, read |-> read]

\* A method that returns its answer, and one that is handed the reply.
Sync(codec, name, args, result) ==
    [codec |-> codec, name |-> name, args |-> args, result |-> result,
     async |-> FALSE]

Async(codec, name, args, result) ==
    [Sync(codec, name, args, result) EXCEPT !.async = TRUE]

\* The type bytes of a codec, from the first: the class each stands for.
Types(first, classes) ==
    [byte \in first..(first + Len(classes) - 1) |-> classes[byte - first + 1]]

\* The standard codec alone.
StandardTypes == Types(128, <<>>)
=============================================================================
