----------------------- MODULE PlatformMessagesProofs -----------------------
(***************************************************************************)
(* Type correctness of the messages on the channels, and that each is       *)
(* replied to once, for any channels, codecs and methods.  Nothing is       *)
(* assumed of the tables: RepliedOnce is a matter of the handlers alone.    *)
(* Last, what has to hold of each channel for the codecs to agree; that it  *)
(* holds of the channels of the plugins is proved in PluginsProofs.         *)
(***************************************************************************)
EXTENDS PlatformMessages, TLAPS

AllChannels == Channels \cup Unheard \cup {NoChannel}

\* A method has been called, so its message is one that was sent.
CalledWasSent ==
    \A m \in Messages :
        message[m].state \in {"sent", "called", "kept"}
            => message[m].channel \in Channels \cup Unheard

\* The inductive invariant.  RepliedOnce is inductive with the types: a reply
\* is made by a step that ends a message, and such a message had none.
IInv == TypeOK /\ CalledWasSent /\ RepliedOnce

USE DEF In, States

LEMMA TypeOfReplies ==
    /\ Empty \in AllReplies
    /\ Error \in AllReplies
    /\ \A ch \in Channels \cup Unheard : \A answer \in Answers(ch) :
          answer \in AllReplies
  BY DEF AllReplies

\* A message that is not over and is replied to is over, with that reply.
LEMMA ReplyEndsIt ==
    ASSUME IInv, NEW m \in Messages, message[m].state # "over",
           NEW with \in AllReplies, Reply(m, with, "over")
    PROVE  IInv'
  <1>1. message[m] \in Message /\ message[m].replies = <<>>
    BY DEF IInv, TypeOK, RepliedOnce
  <1>2. message' = [message EXCEPT ![m] =
                       [@ EXCEPT !.replies = <<with>>, !.state = "over"]]
    BY <1>1 DEF Reply, IInv, TypeOK, Message
  <1>3. TypeOK'
    <2>1. <<with>> \in Seq(AllReplies)
      OBVIOUS
    <2>2. [message[m] EXCEPT !.replies = <<with>>, !.state = "over"] \in Message
      BY <1>1, <2>1 DEF Message
    <2> QED BY <1>2, <2>2 DEF IInv, TypeOK
  <1>4. CalledWasSent'
    BY <1>1, <1>2 DEF IInv, TypeOK, CalledWasSent, Message
  <1>5. RepliedOnce'
    BY <1>1, <1>2 DEF IInv, TypeOK, RepliedOnce, Message
  <1> QED BY <1>3, <1>4, <1>5 DEF IInv

\* A message that moves on without a reply, and does not end.
LEMMA MovesOn ==
    ASSUME IInv, NEW m \in Messages, message[m].state # "over",
           NEW s \in States \ {"over"},
           message[m].channel \in Channels \cup Unheard,
           message' = [message EXCEPT ![m].state = s]
    PROVE  IInv'
  <1>1. message[m] \in Message /\ message[m].replies = <<>>
    BY DEF IInv, TypeOK, RepliedOnce
  <1>2. TypeOK'
    BY <1>1 DEF IInv, TypeOK, Message
  <1>3. CalledWasSent'
    BY <1>1 DEF IInv, TypeOK, CalledWasSent, Message
  <1>4. RepliedOnce'
    BY <1>1 DEF IInv, TypeOK, RepliedOnce, Message
  <1> QED BY <1>2, <1>3, <1>4 DEF IInv

LEMMA InitIInv == Init => IInv
  <1> SUFFICES ASSUME Init PROVE IInv
    OBVIOUS
  <1>1. Unsent \in Message
    BY DEF Unsent, Message
  <1>2. TypeOK
    BY <1>1 DEF Init, TypeOK
  <1>3. CalledWasSent /\ RepliedOnce
    BY DEF Init, Unsent, CalledWasSent, RepliedOnce
  <1> QED BY <1>2, <1>3 DEF IInv

LEMMA NextIInv == IInv /\ [Next]_message => IInv'
  <1> SUFFICES ASSUME IInv, [Next]_message PROVE IInv'
    OBVIOUS
  <1>1. CASE UNCHANGED message
    BY <1>1 DEF IInv, TypeOK, CalledWasSent, RepliedOnce
  <1>2. ASSUME NEW m \in Messages, NEW ch \in Channels \cup Unheard,
               NEW absent \in SUBSET (DOMAIN ch.args), Send(m, ch, absent)
        PROVE  IInv'
    <2>1. message[m] \in Message /\ message[m].replies = <<>>
          /\ message[m].state = "unsent"
      BY <1>2 DEF IInv, TypeOK, RepliedOnce, Send
    <2>2. absent \in SUBSET UNION {DOMAIN c.args : c \in Channels \cup Unheard}
      OBVIOUS
    <2>3. TypeOK'
      BY <1>2, <2>1, <2>2 DEF IInv, TypeOK, Message, Send
    <2>4. CalledWasSent'
      BY <1>2, <2>1 DEF IInv, TypeOK, CalledWasSent, Message, Send
    <2>5. RepliedOnce'
      BY <1>2, <2>1 DEF IInv, TypeOK, RepliedOnce, Message, Send
    <2> QED BY <2>3, <2>4, <2>5 DEF IInv
  <1>3. ASSUME NEW m \in Messages, NoHandler(m) PROVE IInv'
    BY <1>3, ReplyEndsIt, TypeOfReplies DEF NoHandler, Unlistened
  <1>4. ASSUME NEW m \in Messages, CannotDecode(m) PROVE IInv'
    BY <1>4, MovesOn DEF CannotDecode, Arrives
  <1>5. ASSUME NEW m \in Messages, Refuse(m) PROVE IInv'
    BY <1>5, ReplyEndsIt, TypeOfReplies DEF Refuse, Heard, Arrives
  <1>6. ASSUME NEW m \in Messages, Throw(m) PROVE IInv'
    BY <1>6, ReplyEndsIt, TypeOfReplies DEF Throw, Heard, Arrives
  <1>7. ASSUME NEW m \in Messages, CallMethod(m) PROVE IInv'
    BY <1>7, MovesOn DEF CallMethod, Heard, Arrives
  <1>8. ASSUME NEW m \in Messages, MethodThrows(m) PROVE IInv'
    BY <1>8, ReplyEndsIt, TypeOfReplies DEF MethodThrows
  <1>9. ASSUME NEW m \in Messages, Returns(m) \/ AnswersNow(m) \/ AnswersLater(m)
        PROVE  IInv'
    <2>1. message[m].state \in {"called", "kept"}
      BY <1>9 DEF Returns, AnswersNow, AnswersLater
    <2>2. message[m].channel \in Channels \cup Unheard
      BY <2>1 DEF IInv, CalledWasSent
    <2>3. PICK answer \in Answers(message[m].channel) : Reply(m, answer, "over")
      BY <1>9 DEF Returns, AnswersNow, AnswersLater
    <2> QED BY <2>1, <2>2, <2>3, ReplyEndsIt, TypeOfReplies
  <1>10. ASSUME NEW m \in Messages, KeepsReply(m) PROVE IInv'
    BY <1>10, MovesOn DEF KeepsReply, IInv, CalledWasSent
  <1>11. ASSUME NEW m \in Messages, LosesReply(m) PROVE IInv'
    <2>1. message[m] \in Message /\ message[m].channel \in Drops
      BY <1>11 DEF IInv, TypeOK, LosesReply
    <2>2. TypeOK'
      BY <1>11, <2>1 DEF IInv, TypeOK, Message, LosesReply
    <2>3. CalledWasSent'
      BY <1>11, <2>1 DEF IInv, TypeOK, CalledWasSent, Message, LosesReply
    <2>4. RepliedOnce'
      BY <1>11, <2>1 DEF IInv, TypeOK, RepliedOnce, Message, LosesReply
    <2> QED BY <2>2, <2>3, <2>4 DEF IInv
  <1>12. ASSUME NEW m \in Messages, DereferencesNull(m) PROVE IInv'
    BY <1>12, MovesOn DEF DereferencesNull, IInv, CalledWasSent
  <1> QED
    BY <1>1, <1>2, <1>3, <1>4, <1>5, <1>6, <1>7, <1>8, <1>9, <1>10, <1>11,
       <1>12 DEF Next

\* Type correctness of the messages, for any channels and methods.
THEOREM TypeCorrect == Spec => []TypeOK
  <1>1. IInv => TypeOK BY DEF IInv
  <1> QED BY <1>1, InitIInv, NextIInv, PTL DEF Spec

\* Every message is replied to once by its handler or its method, unless the
\* method loses the reply, for any channels and methods.
THEOREM EachRepliedOnce == Spec => []RepliedOnce
  <1>1. IInv => RepliedOnce BY DEF IInv
  <1> QED BY <1>1, InitIInv, NextIInv, PTL DEF Spec

-----------------------------------------------------------------------------
(* The codecs: what of a table makes the two halves of its codec agree. *)

\* Every reply is the handler's or an answer of its message's channel.
OwnAnswers ==
    \A m \in Messages : \A k \in DOMAIN message[m].replies :
        message[m].replies[k]
            \in {Empty, Error} \cup Answers(message[m].channel)

\* A message the codec threw for was one that it cannot decode.
ThrownUndecoded ==
    \A m \in Messages :
        In(m, "undecoded") => message[m].channel \in Channels /\ ~Decoded(m)

CodecInv == OwnAnswers /\ ThrownUndecoded

\* All arguments of the channel can be decoded.
Understood(ch) ==
    \A i \in DOMAIN ch.args :
        ch.args[i].class # Plain => Decodes(ch.codec, ch.args[i].class)

\* The bytes that are written for the class of the channel's result are all
\* read as that class, there is one, and its fields are read as they are written.
ReadBack(ch) ==
    HasClass(ch) =>
        /\ Knows(Writes[ch.codec], ch.result)
        /\ \A byte \in DOMAIN Writes[ch.codec] :
              Writes[ch.codec][byte] = ch.result
                => /\ byte \in DOMAIN Reads[ch.codec]
                   /\ Reads[ch.codec][byte] = ch.result
        /\ \A c \in Within(ch.result) : ReadsAsWritten(c)

\* A step that replies with an answer of the channel keeps the invariant.
LEMMA ReplyKeepsCodecs ==
    ASSUME IInv, CodecInv, NEW m \in Messages, message[m].state # "over",
           NEW with \in {Empty, Error} \cup Answers(message[m].channel),
           Reply(m, with, "over")
    PROVE  CodecInv'
  <1>1. message[m] \in Message /\ message[m].replies = <<>>
    BY DEF IInv, TypeOK, RepliedOnce
  <1>2. message' = [message EXCEPT ![m] =
                       [@ EXCEPT !.replies = <<with>>, !.state = "over"]]
    BY <1>1 DEF Reply, IInv, TypeOK, Message
  <1>3. /\ message'[m].replies = <<with>>
        /\ message'[m].channel = message[m].channel
        /\ message'[m].state = "over"
        /\ \A n \in Messages \ {m} : message'[n] = message[n]
    BY <1>1, <1>2 DEF IInv, TypeOK, Message
  <1>4. OwnAnswers'
    BY <1>3 DEF CodecInv, OwnAnswers
  <1>5. ThrownUndecoded'
    BY <1>3 DEF CodecInv, ThrownUndecoded, Decoded
  <1> QED BY <1>4, <1>5 DEF CodecInv

\* A step that changes but the state of a message, to one that is not
\* "undecoded".
LEMMA MovesKeepCodecs ==
    ASSUME IInv, CodecInv, NEW m \in Messages, NEW s, s # "undecoded",
           message' = [message EXCEPT ![m].state = s]
    PROVE  CodecInv'
  <1>1. /\ message'[m].replies = message[m].replies
        /\ message'[m].channel = message[m].channel
        /\ message'[m].state = s
        /\ \A n \in Messages \ {m} : message'[n] = message[n]
    BY DEF IInv, TypeOK, Message
  <1>2. OwnAnswers'
    BY <1>1 DEF CodecInv, OwnAnswers
  <1>3. ThrownUndecoded'
    BY <1>1 DEF CodecInv, ThrownUndecoded, Decoded
  <1> QED BY <1>2, <1>3 DEF CodecInv

LEMMA InitCodecInv == Init => CodecInv
  BY DEF Init, Unsent, CodecInv, OwnAnswers, ThrownUndecoded

LEMMA NextCodecInv == IInv /\ CodecInv /\ [Next]_message => CodecInv'
  <1> SUFFICES ASSUME IInv, CodecInv, [Next]_message PROVE CodecInv'
    OBVIOUS
  <1>1. CASE UNCHANGED message
    BY <1>1 DEF CodecInv, OwnAnswers, ThrownUndecoded, Decoded
  <1>2. ASSUME NEW m \in Messages, NEW ch \in Channels \cup Unheard,
               NEW absent \in SUBSET (DOMAIN ch.args), Send(m, ch, absent)
        PROVE  CodecInv'
    <2>1. message[m] \in Message /\ message[m].replies = <<>>
          /\ message[m].state = "unsent"
      BY <1>2 DEF IInv, TypeOK, RepliedOnce, Send
    <2>2. /\ message'[m].replies = <<>> /\ message'[m].state = "sent"
          /\ \A n \in Messages \ {m} : message'[n] = message[n]
      BY <1>2, <2>1 DEF Send, IInv, TypeOK, Message
    <2> QED BY <2>2 DEF CodecInv, OwnAnswers, ThrownUndecoded, Decoded
  <1>3. ASSUME NEW m \in Messages, CannotDecode(m) PROVE CodecInv'
    <2>1. /\ message'[m].replies = message[m].replies
          /\ message'[m].channel = message[m].channel
          /\ message'[m].absent = message[m].absent
          /\ \A n \in Messages \ {m} : message'[n] = message[n]
      BY <1>3 DEF CannotDecode, IInv, TypeOK, Message
    <2>2. message[m].channel \in Channels /\ ~Decoded(m)
      BY <1>3 DEF CannotDecode, Arrives
    <2>3. OwnAnswers'
      BY <2>1 DEF CodecInv, OwnAnswers
    <2>4. ThrownUndecoded'
      BY <2>1, <2>2 DEF CodecInv, ThrownUndecoded, Decoded
    <2> QED BY <2>3, <2>4 DEF CodecInv
  <1>4. ASSUME NEW m \in Messages, NoHandler(m) PROVE CodecInv'
    BY <1>4, ReplyKeepsCodecs DEF NoHandler, Unlistened
  <1>5. ASSUME NEW m \in Messages, Refuse(m) \/ Throw(m) PROVE CodecInv'
    BY <1>5, ReplyKeepsCodecs DEF Refuse, Throw, Heard, Arrives
  <1>6. ASSUME NEW m \in Messages, MethodThrows(m) PROVE CodecInv'
    BY <1>6, ReplyKeepsCodecs DEF MethodThrows
  <1>7. ASSUME NEW m \in Messages, Returns(m) \/ AnswersNow(m) \/ AnswersLater(m)
        PROVE  CodecInv'
    <2>1. message[m].state \in {"called", "kept"}
      BY <1>7 DEF Returns, AnswersNow, AnswersLater
    <2>2. PICK answer \in Answers(message[m].channel) : Reply(m, answer, "over")
      BY <1>7 DEF Returns, AnswersNow, AnswersLater
    <2> QED BY <2>1, <2>2, ReplyKeepsCodecs
  <1>8. ASSUME NEW m \in Messages,
               \/ CallMethod(m) \/ KeepsReply(m) \/ LosesReply(m)
               \/ DereferencesNull(m)
        PROVE  CodecInv'
    <2>1. \E s \in {"called", "kept", "over", "crashed"} :
             message' = [message EXCEPT ![m].state = s]
      BY <1>8 DEF CallMethod, KeepsReply, LosesReply, DereferencesNull
    <2> QED BY <2>1, MovesKeepCodecs
  <1> QED
    BY <1>1, <1>2, <1>3, <1>4, <1>5, <1>6, <1>7, <1>8 DEF Next

\* An answer of a channel whose result is read back is read back.
LEMMA AnswerReadBack ==
    ASSUME NEW ch, ReadBack(ch), HasClass(ch),
           NEW reply \in {Empty, Error} \cup Answers(ch), reply.kind = "value"
    PROVE  /\ reply.byte \in DOMAIN Reads[ch.codec]
           /\ Reads[ch.codec][reply.byte] = ch.result
           /\ \A c \in Within(ch.result) : ReadsAsWritten(c)
  <1> DEFINE types == Writes[ch.codec]
             of    == {byte \in DOMAIN types : types[byte] = ch.result}
  <1>1. reply = WriteValue(ch)
    BY DEF Answers, Empty, Error
  <1>2. of # {}
    BY DEF ReadBack, Knows
  <1>3. (CHOOSE byte \in of : TRUE) \in of
    BY <1>2
  <1>4. reply.byte \in of
    BY <1>1, <1>2, <1>3 DEF WriteValue
  <1> QED BY <1>4 DEF ReadBack

\* If the bytes and the fields of every result are read as they are written, a
\* reply that arrives is read back as one of the class it was made from, whoever
\* sends it and however late.
LEMMA CodecInvReadsBack ==
    ASSUME \A ch \in Channels \cup Unheard : ReadBack(ch)
    PROVE  IInv /\ CodecInv => ReplyReadsBack
  <1> SUFFICES ASSUME IInv, CodecInv, NEW m \in Messages,
                      NEW k \in DOMAIN message[m].replies,
                      message[m].replies[k].kind = "value",
                      HasClass(message[m].channel)
               PROVE  LET ch    == message[m].channel
                          reply == message[m].replies[k]
                      IN  /\ reply.byte \in DOMAIN Reads[ch.codec]
                          /\ Reads[ch.codec][reply.byte] = ch.result
                          /\ \A c \in Within(ch.result) : ReadsAsWritten(c)
    BY DEF ReplyReadsBack
  <1>1. message[m].replies[k]
            \in {Empty, Error} \cup Answers(message[m].channel)
    BY DEF CodecInv, OwnAnswers
  <1>2. message[m].channel \in Channels \cup Unheard
    BY DEF IInv, TypeOK, Message, HasClass, NoChannel, Sync, Void
  <1>3. ReadBack(message[m].channel)
    BY <1>2
  <1> QED BY <1>1, <1>3, AnswerReadBack

\* If the codec of a channel knows all that its arguments can be made of, no
\* message on it fails to be decoded.
LEMMA CodecInvDecodes ==
    ASSUME CodecInv, NEW m \in Messages, In(m, "undecoded")
    PROVE  /\ message[m].channel \in Channels
           /\ ~Understood(message[m].channel)
  BY DEF CodecInv, ThrownUndecoded, Decoded, Understood

\* For any channels, codecs and methods: if every result of a channel is read
\* back, every reply is; and what cannot be decoded was sent on a channel that
\* does not understand its arguments.
THEOREM CodecsOfTables ==
    ASSUME \A ch \in Channels \cup Unheard : ReadBack(ch)
    PROVE  Spec => [](/\ ReplyReadsBack
                      /\ \A m \in Messages : In(m, "undecoded")
                            => ~Understood(message[m].channel))
  <1>1. IInv /\ CodecInv
            => /\ ReplyReadsBack
               /\ \A m \in Messages : In(m, "undecoded")
                     => ~Understood(message[m].channel)
    BY CodecInvReadsBack, CodecInvDecodes
  <1> QED
    BY <1>1, InitIInv, NextIInv, InitCodecInv, NextCodecInv, PTL DEF Spec
=============================================================================
