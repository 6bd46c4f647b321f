-------------------------- MODULE IotMessageStore --------------------------
(***************************************************************************)
(* The message store of the IoT template (an ESP8266 sketch): messages     *)
(* wait in an array until the MQTT client has published them, stay there   *)
(* for a while, and are rescheduled when they want an acknowledgement or   *)
(* once failed.  With it the life of the device: power on, settings from   *)
(* EEPROM or from the server, connection, loss of the connection.          *)
(*                                                                         *)
(* A pass of loop() takes d ticks.  The topic, payload, retain flag and    *)
(* quality of service of a message are its id here, and how many attempts  *)
(* connect() makes is left out: it connects or gives up.                   *)
(***************************************************************************)
EXTENDS Naturals, FiniteSetsExt, SequencesExt

CONSTANTS
  MAX_MESSAGES_STORE,
  MAX_MESSAGE_STORE_TIME,      \* in ticks
  MAX_SUBMITS,                 \* bounds of the model: messages of the sketch,
  MAX_FAILURES,                \* passes in which publishing fails,
  MAX_LOSSES,                  \* losses of the connection,
  MAX_CYCLES,                  \* power failures
  Types, AckTypes              \* types of messages sent, without and with an ack

ASSUME StoreSizes ==
  /\ MAX_MESSAGES_STORE \in Nat \ {0}
  /\ MAX_MESSAGE_STORE_TIME \in Nat
  /\ Types \subseteq {"data", "command"} /\ AckTypes \subseteq Types
  /\ {MAX_SUBMITS, MAX_FAILURES, MAX_LOSSES, MAX_CYCLES} \subseteq Nat

VARIABLES
  valid,             \* EEPROM: does it hold a configuration?
  phase,             \* "loading", "inited", or "begun" once client.begin ran
  connected,         \* client.connected()
  mqtt_connected,
  messages,
  delivered,         \* history: how often the broker got each submitted message
  submitted, failures, losses, cycles

deviceVars == <<valid, phase, connected, mqtt_connected>>
bounds == <<submitted, failures, losses, cycles>>
vars == <<deviceVars, messages, delivered, bounds>>

Online == 0                                     \* declare_online's status
Ids == 1 .. MAX_SUBMITS
OldAge == MAX_MESSAGE_STORE_TIME + 1

Message == [id : Ids \cup {Online}, type : {"data", "command"}, ack : BOOLEAN,
            published : BOOLEAN, error : BOOLEAN, age : 0 .. OldAge]

-----------------------------------------------------------------------------
\* The store

\* mutant: room for one more
RoomForOneMore(store) == Len(store) <= MAX_MESSAGES_STORE

HasRoom(store) == Len(store) < MAX_MESSAGES_STORE

publish_matter(store, i, type, ack) ==
  IF ~HasRoom(store) THEN store
  ELSE Append(store, [id |-> i, type |-> type, ack |-> ack,
                      published |-> FALSE, error |-> FALSE, age |-> 0])

\* Nothing ever sets ack_received.
Resent(m) == m.error \/ m.ack

\* Published in an earlier pass, and old or to be sent again.
Removable(m) == m.published /\ (m.age > MAX_MESSAGE_STORE_TIME \/ Resent(m))

\* mutant: the first message is never tried
FirstNotTried(store, failing) ==
  [i \in DOMAIN store |->
     IF store[i].published \/ i = 1 THEN store[i]
     ELSE IF i > failing THEN [store[i] EXCEPT !.published = TRUE]
     ELSE [store[i] EXCEPT !.error = TRUE]]

\* mutant: only the last message is tried in a pass
LastTried(store, failing) ==
  [i \in DOMAIN store |->
     IF store[i].published \/ i < Len(store) THEN store[i]
     ELSE IF i > failing THEN [store[i] EXCEPT !.published = TRUE]
     ELSE [store[i] EXCEPT !.error = TRUE]]

\* What is not published yet is tried from the last to the first.  A publish that
\* fails closes the connection, and so do the ones up to it fail.
Tried(store, failing) ==
  [i \in DOMAIN store |->
     IF store[i].published THEN store[i]
     ELSE IF i > failing THEN [store[i] EXCEPT !.published = TRUE]
     ELSE [store[i] EXCEPT !.error = TRUE]]

\* mutant: a message alone in the store stays
KeepsOne(store, pos) == IF pos > 1 THEN RemoveAt(store, pos - 1) ELSE store

\* The loop that closes the gap starts one too early: the message before the one
\* at pos goes.  The first message only goes when it is alone.
Shifted(store, pos) ==
  IF pos > 1 THEN RemoveAt(store, pos - 1)
  ELSE IF Len(store) = 1 THEN << >> ELSE store

\* The inner loop of cleanUpMessages leaves the outer one's counter past the end,
\* so only the last of the removable messages is dealt with.  It is rescheduled
\* with requires_ack in the place of the message type.
cleanUpMessages(store, removable) ==
  IF removable = {} THEN store
  ELSE LET pos == Max(removable)
           m == store[pos]
           left == Shifted(store, pos)
       IN  IF Resent(m)
           THEN publish_matter(left, m.id, IF m.ack THEN "command" ELSE "data", FALSE)
           ELSE left

Older(store, d) ==
  [i \in DOMAIN store |->
     [store[i] EXCEPT !.age = IF @ + d < OldAge THEN @ + d ELSE OldAge]]

-----------------------------------------------------------------------------
\* The device

Boot ==
  /\ phase' = "loading"
  /\ connected' = FALSE /\ mqtt_connected' = FALSE
  /\ messages' = << >>

PowerCycle ==
  /\ cycles < MAX_CYCLES /\ cycles' = cycles + 1
  /\ Boot
  /\ UNCHANGED <<valid, delivered, submitted, failures, losses>>

\* initSettings with a configuration in EEPROM
StoredSettings ==
  /\ phase = "loading" /\ valid
  /\ phase' = "begun"
  /\ UNCHANGED <<valid, connected, mqtt_connected, messages, delivered, bounds>>

\* mutant: the configuration is not written
UnwrittenConfiguration ==
  /\ phase = "loading" /\ ~valid
  /\ phase' = "inited"
  /\ UNCHANGED <<valid, connected, mqtt_connected, messages, delivered, bounds>>

\* initSettings without one asks the server, until it answers.  It sets inited,
\* so that setUpMqTTClient, which initSettings calls, is never reached.
loadConfiguration ==
  /\ phase = "loading" /\ ~valid
  /\ phase' = "inited"
  /\ valid' = TRUE
  /\ UNCHANGED <<connected, mqtt_connected, messages, delivered, bounds>>

\* connect() then uses a client without a network: the processor restarts.
UnbegunPass ==
  /\ phase = "inited"
  /\ Boot
  /\ UNCHANGED <<valid, delivered, bounds>>

LinkLost ==
  /\ connected
  /\ losses < MAX_LOSSES /\ losses' = losses + 1
  /\ connected' = FALSE
  /\ UNCHANGED <<valid, phase, mqtt_connected, messages, delivered,
                 submitted, failures, cycles>>

\* processMessages on the store as connect() leaves it.  No pass fails with
\* nothing to publish.
processMessages(store) ==
  LET untried == {i \in DOMAIN store : ~store[i].published}
      removable == {i \in DOMAIN store : Removable(store[i])}
  IN  IF ~mqtt_connected'
      THEN /\ messages' = cleanUpMessages(store, removable)
           /\ UNCHANGED <<delivered, failures>>
      ELSE \E failing \in {0} \cup untried :
             LET tried == Tried(store, failing)
             IN  /\ failing # 0 => failures < MAX_FAILURES
                 /\ failures' = failures + (IF failing = 0 THEN 0 ELSE 1)
                 /\ messages' = cleanUpMessages(tried, removable)
                 /\ delivered' =
                      [n \in Ids |-> Min({2, delivered[n] +
                         Cardinality({i \in untried : /\ tried[i].published
                                                      /\ tried[i].id = n
                                                      /\ tried[i].type = "data"})})]

\* A pass, in which connect(), when it is called, connects or gives up.  The
\* clock may jump: NTPClient sets it in loop(), and stamps are older then.
LoopPass(d, connects) ==
  /\ phase = "begun"
  /\ LET store == Older(messages, d)
     IN  IF connected
         THEN connects /\ UNCHANGED mqtt_connected /\ processMessages(store)
         ELSE /\ mqtt_connected' = connects
              /\ processMessages(IF connects
                                 THEN publish_matter(store, Online, "data", FALSE)
                                 ELSE store)
  /\ connected' = (connects /\ failures' = failures)
  /\ UNCHANGED <<valid, phase, submitted, losses, cycles>>

\* custom_loop of a sketch made from the template: publish_data or publish_command
publish(type, ack) ==
  /\ ack => type \in AckTypes
  /\ phase = "begun"
  /\ submitted < MAX_SUBMITS /\ submitted' = submitted + 1
  /\ messages' = publish_matter(messages, submitted', type, ack)
  /\ UNCHANGED <<deviceVars, delivered, failures, losses, cycles>>

Init ==
  /\ valid \in BOOLEAN
  /\ phase = "loading"
  /\ connected = FALSE /\ mqtt_connected = FALSE
  /\ messages = << >>
  /\ delivered = [n \in Ids |-> 0]
  /\ submitted = 0 /\ failures = 0 /\ losses = 0 /\ cycles = 0

Next ==
  \/ PowerCycle
  \/ StoredSettings
  \/ loadConfiguration
  \/ UnbegunPass
  \/ LinkLost
  \/ \E d \in {0, 1, OldAge}, connects \in BOOLEAN : LoopPass(d, connects)
  \/ \E type \in Types, ack \in BOOLEAN : publish(type, ack)

Spec == Init /\ [][Next]_vars

\* loop() runs for ever and time passes; the server that holds the configuration
\* and the broker answer in the end.  Each phase has one kind of pass.
Progress ==
  \/ StoredSettings
  \/ loadConfiguration
  \/ UnbegunPass
  \/ LoopPass(1, TRUE)

FairSpec == Spec /\ WF_vars(Progress)

-----------------------------------------------------------------------------
\* Properties

\* Every variable has its type; the store never holds more than the array.
TypeOK ==
  /\ valid \in BOOLEAN /\ phase \in {"loading", "inited", "begun"}
  /\ connected \in BOOLEAN /\ mqtt_connected \in BOOLEAN
  /\ messages \in Seq(Message) /\ Len(messages) <= MAX_MESSAGES_STORE
  /\ delivered \in [Ids -> 0 .. 2]
  /\ submitted \in 0 .. MAX_SUBMITS /\ failures \in 0 .. MAX_FAILURES
  /\ losses \in 0 .. MAX_LOSSES /\ cycles \in 0 .. MAX_CYCLES

\* As long as no publish has failed, what is still to be published comes after
\* all that is published, whatever connections are lost: so the clean-up, which
\* removes the message before the one it means, only removes published ones.
PublishedFirst ==
  failures = 0 =>
    \A i, j \in DOMAIN messages :
      i < j /\ messages[j].published => messages[i].published

Waiting(n) ==
  \E i \in DOMAIN messages : /\ messages[i].id = n /\ messages[i].type = "data"
                             /\ ~messages[i].published

\* A data message in the store reaches the broker, unless a publish fails or the
\* device restarts.
Delivered ==
  \A n \in Ids : Waiting(n) ~> (delivered[n] > 0 \/ failures > 0 \/ phase # "begun")

\* With nothing more to send and no more failures the store empties for good:
\* rescheduling does not go on for ever.
Settles == <>[](messages = << >>)

\* Once the server has answered, a device gets to the point where it can connect,
\* although the pass that configures it skips the set-up of the client.
GetsReady == phase = "loading" ~> phase = "begun"

\* How far a device is from the phase in which it can connect
Distance ==
  CASE phase = "begun" -> 0
    [] phase = "loading" /\ valid -> 1
    [] phase = "inited" -> 2
    [] OTHER -> 3

\* Whatever a device that is not ready does next brings it nearer, the pass that
\* restarts it and a power failure included.
NearerReady == [][phase # "begun" /\ phase' # phase => Distance' < Distance]_vars

\* "Marking for removal", "Processing/Removing element at position %d" (lines 244,
\* 268): what is removed is a message marked for it, so one that is published.
RemovesPublished ==
  [][\A n \in Ids :
       Waiting(n) /\ phase' = "begun" => Waiting(n)' \/ delivered'[n] > 0]_vars

\* That takes a publish that fails: until then every data message stays in the
\* store until the broker has it, for as long as the device does not restart.
NothingLost ==
  [][\A n \in Ids :
       Waiting(n) /\ failures' = 0 /\ phase' = "begun" =>
         Waiting(n)' \/ delivered'[n] > delivered[n]]_vars

\* And until then no data message reaches the broker twice: what is sent again,
\* for want of an acknowledgement, is sent as a command.
DeliveredOnce == failures = 0 => \A n \in Ids : delivered[n] <= 1

=============================================================================
