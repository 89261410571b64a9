------------------------------- MODULE Connect ------------------------------
(***************************************************************************)
(* Establishing a connection: the client dials, retrying failed dials      *)
(* until its deadline, offers v3 if it wants recovery and falls back to v2 *)
(* if the server asks for it; client and server negotiate version, codec   *)
(* and max frame; in v3 the attach of a new session follows.  The client's *)
(* codec lists are the ones validate_codec_list lets through.              *)
(***************************************************************************)
EXTENDS Naturals, Sequences

CONSTANTS
  CodecLists,   \* preference lists the two sides may be configured with
  MaxFrames,    \* values of with_max_frame
  MaxDials      \* bound: dials in all

ASSUME ConnectAssumption ==
  /\ CodecLists \subseteq Seq(Nat)
  /\ \A list \in CodecLists : Len(list) > 0
  /\ MaxFrames \subseteq Nat
  /\ MaxDials \in Nat

VARIABLES
  client,   \* configuration: codecs, max_frame, recovery, and is there a deadline?
  server,   \* configuration: codecs, max_frame, recovery
  pc,       \* where connect_with is
  version,  \* the version of the attempt
  dials,    \* how often the client has dialed
  toServer, \* what the server has yet to read
  toClient, \* what the client has yet to read
  config,   \* the client's configuration of the connection
  served,   \* the server's configuration of the current transport
  up        \* is the transport up?

settings == << client, server >>
connectVars == << settings, pc, version, dials, toServer, toClient, config, served, up >>

Nothing == [type |-> "nothing"]
NoConfig == [version |-> 0, codec_id |-> 0, max_frame |-> 0]
Config(v, codec, max) == [version |-> v, codec_id |-> codec, max_frame |-> max]

\* The first version of connect_attempt.
FirstVersion == IF client.recovery THEN 3 ELSE 2

ConnectInit ==
  /\ client \in [codecs : CodecLists, max_frame : MaxFrames, recovery : BOOLEAN,
                 deadline : BOOLEAN]
  /\ server \in [codecs : CodecLists, max_frame : MaxFrames, recovery : BOOLEAN]
  /\ pc = "dial"
  /\ version = FirstVersion
  /\ dials = 0
  /\ toServer = Nothing
  /\ toClient = Nothing
  /\ config = NoConfig
  /\ served = NoConfig
  /\ up = FALSE

-----------------------------------------------------------------------------
(* Negotiation.                                                            *)

Elements(list) == {list[i] : i \in 1 .. Len(list)}
FirstOf(list, S) ==
  list[CHOOSE i \in 1 .. Len(list) : list[i] \in S /\ \A j \in 1 .. i - 1 : list[j] \notin S]

\* Mutant: the server's preferences decide.
SelectCodecByServer(client_codecs, supported) == FirstOf(supported, Elements(client_codecs))

\* The client's most preferred codec that the server supports.
SelectCodec(client_codecs, supported) == FirstOf(client_codecs, Elements(supported))

NegotiateMaxFrame(client_max, server_max) ==
  IF client_max = 0 THEN 0
  ELSE IF client_max < server_max THEN client_max ELSE server_max

\* supported_protocol_version.
ReplyVersion == IF server.recovery THEN 3 ELSE 2

Reply(accept, v, codec, max) ==
  [type |-> "reply", accept |-> accept, version |-> v, codec_id |-> codec, max_frame |-> max]

\* What handshake_server answers.
HandshakeReply(request) ==
  IF request.version = 3 /\ ~server.recovery
  THEN Reply(FALSE, ReplyVersion, 0, 0)
  ELSE IF Elements(request.codecs) \cap Elements(server.codecs) = {}
  THEN Reply(FALSE, request.version, 0, 0)
  ELSE Reply(TRUE, request.version, SelectCodec(request.codecs, server.codecs),
             NegotiateMaxFrame(request.max_frame, server.max_frame))

-----------------------------------------------------------------------------
(* The client.                                                             *)

\* The transport is dropped.
Drop == up' = FALSE /\ toServer' = Nothing /\ toClient' = Nothing

\* Connected to the server's listener, and the handshake request is written.
Dial ==
  /\ pc = "dial" /\ dials < MaxDials
  /\ dials' = dials + 1
  /\ up' = TRUE
  /\ toServer' = [type |-> "hello", version |-> version, codecs |-> client.codecs,
                  max_frame |-> client.max_frame]
  /\ toClient' = Nothing
  /\ served' = NoConfig
  /\ pc' = "hello"
  /\ UNCHANGED << settings, version, config >>

\* A failed dial is retried, from the first version, if there is a deadline.
DialFails ==
  /\ pc = "dial" /\ dials < MaxDials
  /\ dials' = dials + 1
  /\ pc' = IF client.deadline THEN "dial" ELSE "failed"
  /\ version' = FirstVersion
  /\ UNCHANGED << settings, toServer, toClient, config, served, up >>

\* The deadline passes, wherever the client is: ConnectTimeout.
Timeout ==
  /\ client.deadline /\ pc \in {"dial", "hello", "attach"}
  /\ pc' = "failed"
  /\ Drop
  /\ UNCHANGED << settings, version, dials, config, served >>

\* Mutant: every failed v3 handshake falls back to v2.
FallsBackAlways(reply) == version = 3

\* UnsupportedFrameVersion(2) in answer to a v3 offer.
FallsBack(reply) == version = 3 /\ reply.type = "reply" /\ reply.version = 2

\* A failure of handshake or attach is returned at once, or falls back.
Fails(reply) ==
  /\ IF FallsBack(reply)
     THEN pc' = "dial" /\ version' = 2
     ELSE pc' = "failed" /\ UNCHANGED version
  /\ Drop
  /\ UNCHANGED << settings, dials, config, served >>

\* handshake_client rejects the reply: version, accept, then the codec.
Rejects(reply) ==
  reply.version # version \/ ~reply.accept \/ reply.codec_id \notin Elements(client.codecs)

\* v2 is connected after the handshake; v3 asks to attach a new session.
ReadReply ==
  /\ pc = "hello" /\ toClient.type = "reply" /\ ~Rejects(toClient)
  /\ config' = Config(version, toClient.codec_id, toClient.max_frame)
  /\ pc' = IF version = 3 THEN "attach" ELSE "connected"
  /\ toServer' = IF version = 3 THEN [type |-> "attach"] ELSE Nothing
  /\ toClient' = Nothing
  /\ UNCHANGED << settings, version, dials, served, up >>

ReadRejected ==
  /\ pc = "hello" /\ toClient.type = "reply" /\ Rejects(toClient)
  /\ Fails(toClient)

ReadAttached ==
  /\ pc = "attach" /\ toClient.type = "attached"
  /\ pc' = "connected"
  /\ toClient' = Nothing
  /\ UNCHANGED << settings, version, dials, toServer, config, served, up >>

\* The transport failed, or the server dropped it.
ReadFails ==
  /\ pc \in {"hello", "attach"} /\ ~up
  /\ Fails(Nothing)

-----------------------------------------------------------------------------
(* The server and the network.                                             *)

\* handshake_server; a client that it refuses is dropped once it has answered.
ServerHello ==
  LET reply == HandshakeReply(toServer) IN
  /\ up /\ toServer.type = "hello"
  /\ toServer' = Nothing
  /\ toClient' = reply
  /\ served' = IF reply.accept THEN Config(reply.version, reply.codec_id, reply.max_frame)
               ELSE NoConfig
  /\ UNCHANGED << settings, pc, version, dials, config, up >>

\* attach_new.
ServerAttach ==
  /\ up /\ toServer.type = "attach"
  /\ toServer' = Nothing
  /\ toClient' = [type |-> "attached"]
  /\ UNCHANGED << settings, pc, version, dials, config, served, up >>

\* The transport fails, or the server gives the handshake up (its timeout, a
\* refusing on_connect, its shutdown).
Lost ==
  /\ up /\ pc \in {"hello", "attach"}
  /\ Drop
  /\ UNCHANGED << settings, pc, version, dials, config, served >>

ConnectNext ==
  \/ Dial \/ DialFails \/ Timeout
  \/ ReadReply \/ ReadRejected \/ ReadAttached \/ ReadFails
  \/ ServerHello \/ ServerAttach \/ Lost

ConnectSpec == ConnectInit /\ [][ConnectNext]_connectVars

-----------------------------------------------------------------------------
(* Properties.                                                             *)

\* Types; only v3 attaches, so a v2 server never finds an attach request where
\* it reads frames.
ConnectTypeOK ==
  /\ pc \in {"dial", "hello", "attach", "connected", "failed"}
  /\ version \in {2, 3}
  /\ dials \in 0 .. MaxDials
  /\ {config.max_frame, served.max_frame} \subseteq MaxFrames \cup {0}
  /\ up \in BOOLEAN
  /\ ~up => toServer = Nothing /\ toClient = Nothing
  /\ toServer.type = "attach" => served.version = 3

\* Once connected, both sides use one version, codec and max frame; the codec is
\* the client's first choice among those the server supports, and "the
\* effective limit for the connection is the smaller of both sides' values"
\* (Client::with_max_frame).
Agreed ==
  pc = "connected" =>
    /\ config = served
    /\ config.codec_id \in Elements(server.codecs)
    /\ \A i \in 1 .. Len(client.codecs) :
         client.codecs[i] \in Elements(server.codecs) =>
           \E j \in 1 .. i : client.codecs[j] = config.codec_id
    /\ config.max_frame <= client.max_frame /\ config.max_frame <= server.max_frame

\* A client that wants recovery gets it from every server that offers it: it
\* falls back to v2 only from a server without recovery, never because a
\* transport was lost in the middle of a v3 handshake (connect_attempt).
RecoveryIfBothWant ==
  pc = "connected" => (config.version = 3 <=> client.recovery /\ server.recovery)
=============================================================================
