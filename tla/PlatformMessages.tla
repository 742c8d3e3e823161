-------------------------- MODULE PlatformMessages --------------------------
(***************************************************************************)
(* The messages of Dart on the channels of the host APIs: what the handlers *)
(* that SetUp gives the channels do with one, from its arrival to its       *)
(* reply (the messages.g.cc of the plugins).                               *)
(*                                                                         *)
(* A handler takes the arguments one after the other and calls the method   *)
(* of the plugin.  A method that returns its answer is replied for by the   *)
(* handler; one that is handed the reply may use it at once, keep it and    *)
(* use it later on a thread of its own, or lose it.  What the methods do    *)
(* besides is in the modules of the plugins.                               *)
(*                                                                         *)
(* External: the engine answers a message nobody handles with nothing, and  *)
(* never answers one whose reply was lost.  It decodes a message before it  *)
(* calls the handler, so an exception of the codec is not caught by the     *)
(* handler's try.  Dart writes its objects with the bytes of WriteValue.    *)
(***************************************************************************)
EXTENDS PigeonChannels, FiniteSets

CONSTANTS
    Messages,       \* the messages Dart sends
    Channels,       \* the channels that have a handler
    Unheard,        \* and those of the APIs that have none
    Classes,        \* the classes the messages are made of
    Reads, Writes,  \* each codec's types (ReadValueOfType, WriteValue)
    Drops,          \* the channels whose method may lose the reply
    Dereferences    \* a channel with an argument its method dereferences

VARIABLE message

NoChannel == Sync("none", "none", <<>>, Void)

\* "called": the arguments were taken and the method is about to run.
\* "kept": the method has returned and the reply is still to be used.
\* "undecoded" and "crashed": the program has ended.
States == {"unsent", "sent", "undecoded", "called", "kept", "over", "crashed"}

Unsent == [state |-> "unsent", channel |-> NoChannel, absent |-> {},
           replies |-> <<>>]

Init == message = [m \in Messages |-> Unsent]

-----------------------------------------------------------------------------
(* The codec. *)

Knows(types, class) == \E byte \in DOMAIN types : types[byte] = class

\* The classes of the lists within the lists of the classes.
WithParts(names) ==
    names \cup
        UNION {{c.read[i].class : i \in {j \in DOMAIN c.read : c.read[j].list}} :
               c \in {d \in Classes : d.class \in names}}

\* Objects are at most three deep.
Within(class) ==
    {c \in Classes : c.class \in WithParts(WithParts({class}))}

\* A field of FromEncodableList that is cast to a class of its own.
CastFields(c) ==
    {i \in DOMAIN c.read : c.read[i].class # Plain /\ ~c.read[i].list}

Decodes(codec, class) ==
    /\ Knows(Reads[codec], class)
    /\ \A c \in Within(class) : \A i \in CastFields(c) :
          Knows(Reads[codec], c.read[i].class)

\* What ToEncodableList writes, FromEncodableList reads, and where it may write
\* null it looks for that.
ReadsAsWritten(c) ==
    /\ DOMAIN c.read = DOMAIN c.written
    /\ \A i \in DOMAIN c.written :
          /\ c.read[i].class = c.written[i].class
          /\ c.read[i].list = c.written[i].list
          /\ c.written[i].absent = "null" => c.read[i].absent = "null"

-----------------------------------------------------------------------------
(* Replies.  Of a value, the type byte that it is written with. *)

NoByte == 0
Empty  == [kind |-> "empty", byte |-> NoByte]
Error  == [kind |-> "error", byte |-> NoByte]       \* WrapError

HasClass(ch) == ch.result \notin {Plain, Void}

\* A class that the codec does not know is left to the standard codec, which
\* writes nothing.
WriteValue(ch) ==
    LET types == Writes[ch.codec]
        of    == {byte \in DOMAIN types : types[byte] = ch.result}
    IN  [kind |-> "value",
         byte |-> IF HasClass(ch) /\ of # {} THEN CHOOSE byte \in of : TRUE
                                             ELSE NoByte]

Answers(ch) == {WriteValue(ch), Error}

AllReplies ==
    {Empty, Error} \cup UNION {Answers(ch) : ch \in Channels \cup Unheard}

Reply(m, with, state) ==
    message' = [message EXCEPT ![m].replies = Append(@, with),
                               ![m].state = state]

-----------------------------------------------------------------------------
(* The handler, on the platform thread. *)

In(m, state) == message[m].state = state

Decoded(m) ==
    LET ch == message[m].channel
    IN  \A i \in DOMAIN ch.args \ message[m].absent :
           ch.args[i].class # Plain => Decodes(ch.codec, ch.args[i].class)

Arrives(m) == In(m, "sent") /\ message[m].channel \in Channels
Heard(m) == Arrives(m) /\ Decoded(m)
Unlistened(m) == In(m, "sent") /\ message[m].channel \notin Channels

Send(m, ch, absent) ==
    /\ In(m, "unsent")
    /\ message' = [message EXCEPT ![m] = [@ EXCEPT !.state = "sent",
                                                   !.channel = ch,
                                                   !.absent = absent]]

NoHandler(m) == Unlistened(m) /\ Reply(m, Empty, "over")

\* FromEncodableList throws bad_any_cast.
CannotDecode(m) ==
    /\ Arrives(m) /\ ~Decoded(m)
    /\ message' = [message EXCEPT ![m].state = "undecoded"]

\* What becomes of the first absent argument that no null pointer stands for.
Stopping(m) ==
    {i \in message[m].absent : message[m].channel.args[i].absent # "null"}

Stops(m, how) ==
    \E i \in Stopping(m) :
        /\ \A j \in Stopping(m) : i <= j
        /\ message[m].channel.args[i].absent = how

\* Mutant: the refusal does not return.
RefuseAndGoOn(m) == Heard(m) /\ Stops(m, "refused") /\ Reply(m, Error, "called")

\* "unexpectedly null", and the handler returns.
Refuse(m) == Heard(m) /\ Stops(m, "refused") /\ Reply(m, Error, "over")

\* The cast throws bad_variant_access or bad_any_cast.
Throw(m) == Heard(m) /\ Stops(m, "throws") /\ Reply(m, Error, "over")

CallMethod(m) ==
    /\ Heard(m) /\ Stopping(m) = {}
    /\ message' = [message EXCEPT ![m].state = "called"]

-----------------------------------------------------------------------------
(* The method. *)

\* It throws before it has answered, and the handler replies with that.
MethodThrows(m) == In(m, "called") /\ Reply(m, Error, "over")

Returns(m) ==
    /\ In(m, "called") /\ ~message[m].channel.async
    /\ \E answer \in Answers(message[m].channel) : Reply(m, answer, "over")

AnswersNow(m) ==
    /\ In(m, "called") /\ message[m].channel.async
    /\ \E answer \in Answers(message[m].channel) : Reply(m, answer, "over")

KeepsReply(m) ==
    /\ In(m, "called") /\ message[m].channel.async
    /\ message' = [message EXCEPT ![m].state = "kept"]

AnswersLater(m) ==
    /\ In(m, "kept")
    /\ \E answer \in Answers(message[m].channel) : Reply(m, answer, "over")

LosesReply(m) ==
    /\ In(m, "called") /\ message[m].channel \in Drops
    /\ message' = [message EXCEPT ![m].state = "over"]

\* The method uses a null pointer, which is undefined: it may also go on.
DereferencesNull(m) ==
    /\ In(m, "called")
    /\ \E i \in message[m].absent : <<message[m].channel, i>> \in Dereferences
    /\ message' = [message EXCEPT ![m].state = "crashed"]

-----------------------------------------------------------------------------

Next ==
    \E m \in Messages :
        \/ \E ch \in Channels \cup Unheard :
              \E absent \in SUBSET (DOMAIN ch.args) : Send(m, ch, absent)
        \/ NoHandler(m)
        \/ CannotDecode(m)
        \/ Refuse(m)
        \/ Throw(m)
        \/ CallMethod(m)
        \/ MethodThrows(m)
        \/ Returns(m)
        \/ AnswersNow(m)
        \/ KeepsReply(m)
        \/ AnswersLater(m)
        \/ LosesReply(m)
        \/ DereferencesNull(m)

Spec == Init /\ [][Next]_message

-----------------------------------------------------------------------------
(* Properties. *)

Message ==
    [state   : States,
     channel : Channels \cup Unheard \cup {NoChannel},
     absent  : SUBSET UNION {DOMAIN ch.args : ch \in Channels \cup Unheard},
     replies : Seq(AllReplies)]

\* The type invariant: what handlers and methods make of a message.
TypeOK == message \in [Messages -> Message]

\* A message is replied to at most once, by its handler or by whoever kept the
\* reply, and exactly once when it is over, unless its method lost the reply.
RepliedOnce ==
    \A m \in Messages :
        /\ Len(message[m].replies) <= 1
        /\ In(m, "over") /\ message[m].replies = <<>>
              => message[m].channel \in Drops
        /\ message[m].replies # <<>> => In(m, "over")

\* An object that a method answers with is written under the byte that the
\* codec reads as an object of the same class, and field by field as its list
\* is read.
ReplyReadsBack ==
    \A m \in Messages : \A k \in DOMAIN message[m].replies :
        LET ch    == message[m].channel
            reply == message[m].replies[k]
        IN  reply.kind = "value" /\ HasClass(ch)
              => /\ reply.byte \in DOMAIN Reads[ch.codec]
                 /\ Reads[ch.codec][reply.byte] = ch.result
                 /\ \A c \in Within(ch.result) : ReadsAsWritten(c)
=============================================================================
