# A TLA+ verification of CloseApp

CloseApp introduces people who are near each other. Phones advertise a rotating
id over Bluetooth; a user who sees someone sends a *link request* through a
server; both then meet in an end-to-end encrypted *chat session* on a relay; and
when both want to *come closer*, each sees the other's social handle.

This directory models the parts of the program that decide whether that is safe
and whether it works: the chat screen with its handshake and its consent
dialogue, the relay and its client, the link requests that bring two phones into
one session, what it takes to be visible and to stop being visible, the list of
nearby people with the bytes on the air behind it, and the score that decides who
may be asked. TLC checks the models on small instances; TLAPS proves the main
safety properties for every instance.

Paths below are relative to `src/mobile/CloseApp/src/` unless they start with
`server/` or `ios/` (`src/mobile/CloseApp/ios/`).

## Inventory

| Part | State | Operations | Correct when |
| --- | --- | --- | --- |
| Relay server, `/ws` (`server/main.py:15-32`) | sockets per session | join, forward, leave | a frame reaches the other members of its session and nobody else |
| Relay server, `/link-requests` (`server/main.py:34-79`) | socket per ephemeral id | register, forward request, deregister | who is connected stays registered; a request reaches its addressee |
| Relay client (`network/ws.ts`) | socket, queue of pending messages | connect, open, send, receive, close | messages leave in the order they were sent |
| Chat screen (`screens/Chat.tsx`) | keys, consent flags, dialogs, texts | mount, handshake, send, receive, Come Closer, leave | keys agree; a handle shows only by mutual consent; texts arrive in order |
| Home screen (`screens/Home.tsx`) | toggle, orchestrator, timers, list, dialogs | toggle, sighting, cleanup, check, send link, accept link | off means off; the toggle tells the truth; the list shows who is there, under the id they answer to |
| BLE orchestrator (`ble/orchestrator.ts`) | id, payload, rotation interval | start, stop, build and advertise | the id rotates while visible and not after |
| BLE manager (`ble/index.ts`) | one subscription | start and stop scanning and advertising | no listener outlives a stop |
| Link request client (`network/linkRequests.ts`) | socket, id | connect, send request, receive, disconnect | reachable under the id that others see |
| Native BLE module (`ios/CloseApp/BLEModule.swift`) | scanning flag, payload, managers | start/stop scanning and advertising, Bluetooth state changes | the radio does what was last asked for, also after Bluetooth was off |
| Payload, fingerprint, ids (`utils/`) | none | pack, unpack, hash | the receiver reads the id that the sender derived, or nothing |
| Scoring (`scoring/fast.ts`) | none | compile, score | bit masks agree with sets; the score orders peers sensibly |
| Onboarding, storage, navigation, config | profile in encrypted storage | load, save | - |
| `matching/ai.ts` | - | imported by Home, never called | - |
| `chat/session.ts`, `crypto/ephemeral.ts` | - | not imported by the app | - |

How they interact: Home's toggle creates an orchestrator, which drives the BLE
manager and through it the native module; after 100 ms Home registers with the
link request endpoint under the orchestrator's id. Sending or accepting a link
request navigates to Chat with a session id. Chat opens a relay client, sends its
public key, and from then on everything is messages between two screens through
the relay.

What is hard: every `await loadProfile()` and `await getUniqueId()` splits a
handler in two, and what follows runs in the closure of an old render; timers of
100 ms, 500 ms and 10 minutes race user actions; the relay drops what it cannot
deliver at once; sockets break without anyone being told; names on the air arrive
shortened; the list lives between sightings, a one-second interval and the user's
taps; scores are made by 32-bit tricks on masks; React keeps a mounted
screen with all its refs when only its route parameters change; dialogs and timers
outlive the screen that made them; Bluetooth comes and goes; library calls fail. `PROJECT.json` lists these hazards at their lines.

## Modules

| Module | Models |
| --- | --- |
| `RelayClient` | `network/ws.ts`: the socket's `readyState`, `pendingMessages`, and the two directions of the wire as queues `up` and `down` |
| `Relay` | extends it with the sockets the server holds (`joined`) and the `/ws` endpoint |
| `Chat` | extends `Relay` with one chat screen per device; the specifications and the properties |
| `ComeCloser` | abstract: the Come Closer dialogue without messages, dialogs and screens |
| `ChatProofs` | the theorems about `Chat`: types, keys and consent |
| `RefusalProofs` | that a No stands, what unmounted screens leave behind, and that `Chat` implements `ComeCloser` |
| `TextProofs`, `SwitchProofs` | the order of texts; who may hear them when a screen is reused |
| `LinkRequests` | the server's `/link-requests` endpoint, `network/linkRequests.ts` and Home's handling of requests, for several phones |
| `Rendezvous` | abstract: who enters a chat session, and in which order |
| `LinkProofs` | the theorems about `LinkRequests` |
| `BleRadio` | `ios/CloseApp/BLEModule.swift`: what was asked for and what the radio does |
| `Visibility` | extends it with Home's toggle and link dialogs, the orchestrators, the BLE manager and the link request client of one phone |
| `VisibilityProofs` | the theorems about `Visibility` |
| `Payload` | `utils/blePayload.ts`, the base64 bridge of `ble/index.ts`, the local name and its parsing in `BLEModule.swift`: functions on bytes |
| `Candidates` | extends it with Home's list, the cleanup interval, checks and the link dialog |
| `CandidatesProofs` | the theorems about `Payload` and `Candidates` |
| `Scoring` | `scoring/fast.ts`: functions on 32-bit numbers, masks and profiles |
| `Compatibility` | extends it with the loading of the user's profile and "Check Match" |
| `CompatibilityProofs` | the theorems about `Scoring` and `Compatibility` |
| `MCChat`, `MCLinkRequests`, `MCVisibility`, `MCCandidates`, `MCCompatibility` | instances for TLC |

### Chat

A *client* is a pair of device and session: Chat creates one `RelayClient` per
run of its effect, and a session id contains a time stamp, so it is used once.
`chat[d]` is the screen of device `d`, a record of the component's refs and
React state under their own names (`sessionKey`, `myWantsToClose`,
`peerWantsToClose`, `showInstagram`, `peerInstagram`), plus what the JavaScript
runtime holds for it: the effects that have run (`runs`), the pending
continuations of `sendPublicKey` (`hello`) and of the handshake's answer
(`reply`), the open dialogs (`alerts`), the 500 ms timer (`backTimer`) and the
texts shown (`heard`).

Each message type is one action (`ReceivePubkey`, `ReceiveMsg`,
`ReceiveCloseRequest`, `ReceiveCloseAccept`, `ReceiveCloseReject`), each button
one (`Say`, `HandleCloseRequest`, `ConfirmYes`, `ConfirmCancel`, `PromptYes`,
`PromptNo`, `DismissEnded`, `DismissCloser`, `UserBack`), each continuation one
(`SendPublicKey`, `Reply`, `BackTimerFires`). `consented` and `refused` are
history variables: who answered Yes and who answered No to a request, in which
session, while on the screen. They are written by the answers and read only by
properties.

Leaving the screen does not end everything it began. React Native's dialogs belong
to the phone and stay open, the 500 ms timer runs on, and a socket in its closing
handshake still delivers frames; the handlers of all three then run in the closure of
an unmounted component. `gone[k]` is what the instance with key pair `k` has left
(`Remains`): its dialogs, its timer, the sessions it listens to and the two consent
refs. Every handler that can still run has an action of its own (`LateReceive`,
`LateConfirmYes`, `LateCancel`, `LatePromptYes`, `LatePromptNo`, `LateDismissEnded`,
`LateDismissCloser`, `LateTimerFires`), and `late` is the history of the answers they
were given. Three things are left out of them: React state, which an unmounted
component no longer has; what a handler sends, because the client it holds is closed
and puts it into a queue that is never flushed; and a key or text that arrives, which
only changes such state. `goBack()` from there pops the route in front (`LateBack`):
at Home there is none, but a chat opened in the meantime is left.

Abstractions, and why they are sound:

* Cryptography is symbolic: a key pair is the name of the screen that made it, a
  shared key is the set of the two pairs, a box opens only under its own key.
* A profile is reduced to whether it has a handle; the handle is its owner.
* Dialogs are modal with the newest on top, for each instance of the screen; the order
  between dialogs of different instances on one phone is left open, which allows more
  than the phone does. Dialogs with a lone OK that does nothing are left out, so is the
  swipe gesture: its handler belongs to the first render, in which `sessionKey` is null,
  and never acts.
* The relay handles one frame in one step. A session has two members, so there is
  one send and nothing can come between. A send to a broken socket is lost, and
  may or may not remove the socket.
* Frames that a socket had accepted before `close()` still reach the relay, and
  frames from the relay still arrive during the closing handshake; a socket that
  the network breaks, closing or not, loses both directions. So does one that is
  closing when a send to it raises: to the server's library it is disconnected then,
  and its handler reads at most one more frame. `ClientLost` stands for both.
* `loadProfile()` resolves. Where it rejects, `sendPublicKey().catch(() => {})`
  (`Chat.tsx:239`) swallows it, no key is sent and the handshake cannot complete;
  `HandshakeCompletes` and `MutualReveal` assume that it does not.

Four specifications share these actions. `Spec`: a screen serves one session.
`AgainSpec`: users who accept one call but may make another, so that a second chat is
opened while remains of the first are there, and who either talk or touch Close, which
keeps two sessions and longer conversations within TLC's reach.
`SwitchSpec`: a second request may be accepted while a chat is open, and the
mounted screen is reused (`Switch`). `SwitchTalkSpec`: the same with users who
only switch and talk, to keep three devices within TLC's reach.

`ComeCloser` says what the dialogue promises: in the chat each party answers once and
does not take it back, a handle shows only after two Yes, never after a No, and until
its viewer leaves. Who has left may still answer, otherwise than before too
(`AnswerLate`), and that has no effect on what shows. `Chat` implements it
(`ComeCloserSpec`) under the mapping `agreed <- consented`, `refused <- refused`,
`late <- late` and `shown <-` the pairs of device and session whose screen has
`showInstagram` set.

### Link requests

An id and its socket are named by phone and turn-on, since each turn-on draws a
new secret. `SendLinkRequest` is the whole handler: send, disconnect, go to the
chat. A request then passes `up`, `Forward`, `down`, `ReceiveRequest`, a dialog,
`HandleAcceptRequest` or `RejectRequest`, and `NavigateTimer`. The server drops a
request to an id that is not in `link_request_connections`. A send to a socket
that is closing or gone is lost or raises; when it raises, the exception is
caught by the outer `try` of the *sender's* handler (`server/main.py:76`), so it
is the sender that is deregistered (`ForwardRaises`). The library then takes the
socket for disconnected (`dead`): a second send to it raises `RuntimeError`, and so
does its own handler's next `receive_text()`. Line 76 does not catch that, so the
handler crashes and its entry stays for good (`ForwardCrashes`, and the last turn in
`Forward`). The window is small: the entry of a phone that is gone normally goes as
soon as its handler runs. `now` stands for
`Date.now()` in session ids. `respond_to_request` is left out: nothing sends it.
Turning on and off are single steps here; `Visibility` takes them apart.

`Rendezvous` says what this exchange promises: a session is entered by its caller,
then at most by its callee. `Chat` takes exactly this for granted in the guard of
`Navigate`; `LinkRequests` implements it (`MeetingSpec`). The two models meet there.

### Visibility

Each turn-on makes an orchestrator, a cleanup interval, a 100 ms timer and a
socket, all named by the number of the turn-on. `toggle()` is `TogglePress` up to
its `await`, and `ToggleOff` or `ToggleOn` after it; which of the two is decided
by what the pressed render saw, kept in `presses`. `ToggleNoProfile` is the early
return when no profile is stored. `dialog` is what the render
saw that opened the link dialog. The handler of an incoming request is the one
passed to `connect()` by a `toggle()` whose render saw `scanning` false, so
`HandleAcceptRequest` never enters the block that stops scanning.
`buildAndAdvertise` is split at its `await`: `builds[o]` counts the pending calls.
Ids are pairs of orchestrator and epoch, because the derived id is a hash of a
secret per orchestrator and the epoch.

Library calls fail at any time if `Faults` names them: `loadProfile()` rejects
(`"profile"`: `ToggleFails`, the `catch` of `toggle()`), the native `startScanning`
throws (`"scan"`: `ToggleOnFails`, the same `catch` with the turn-on half done),
`getUniqueId()` rejects (`"uuid"`: `BuildFails`) or the native `startAdvertising`
throws (`"advertise"`: `AdvertiseFails`), the last two swallowed by `start()` and the
rotation interval (`orchestrator.ts:26, 28`). `failed` is the history of the failures.
`MaxFaults` bounds how many different calls fail, each any number of times. The error
dialog of the `catch` is left out. A cleared interval and a closed socket are forgotten
altogether: `OrchestratorStop` resets `rotated`, `Disconnect` resets `registeredAs`.

Users press at any time. The history variable `hasty` tells whether the user has
ever acted while a press, a 100 ms timer or a build was still pending (not `Settled`;
a rotation tick that is due does not count). `OffMeansOff` is about users who were
not; `PatientSpec`, which some of the violations use, is `Spec` without such users.
Bluetooth and time change at any time in both.

`BleRadio` takes each native method as one step. They run on the queue that React
Native gives the module, the delegate on the main queue. So Bluetooth may come on
between the test and the assignment of `startScanning` (`BLEModule.swift:55-62`): the
delegate then finds the flag unset, and the scan begins only with the next state
change, against the comment on line 61. `SearchesWhenOn` does not see this.

### The list of nearby people

`Payload` follows an id from one phone to the list of another. `PackPayload` makes
12 bytes; base64 carries them to the native module, `Hex` and a prefix of 24 digits
make the local name, of which any number `n` of digits arrives; `ParseName` makes
bytes of them again, two digits at a time, a last digit by itself; base64 carries
these to `UnpackPayload`, which refuses fewer than 12; and `ShownId` is what Home
lists. Strings are sequences of digits or sextets; base64 and hexadecimal are
library functions and modelled by what they compute.

`Candidates` has the list itself. What phones around do shows only in which id is
heard when, so `Sighting` takes any id, any signal strength and any part of the
name. `Tick` is a second of `Date.now()`: every row gets older, up to an age from
which nothing changes, and the interval, if it runs, has run once in every second.
`Cleanup` keeps the rows younger than the limit, in order; the filter is written as
the relation between the list before and after (the rows at the positions `Kept`, in
increasing order), because that is what proofs can use. It,
`CheckCompatibility`, `OpenLinkDialog`, `CloseLinkDialog`,
`SendLinkRequest`, `TurnOn` and `TurnOff` are the rest. The list is kept when
visibility is turned off, as the code says; only a running interval shortens it.
`heard`, `crowdedOut` and `swept` are history: when each id was last heard, who was
cut off at the end of the list, and whether the interval has run since the turn-on.
A check has no `await` between reading the list and writing the result, so it is one
step. Turning on and off always work here; the `catch` of `toggle()` leaves the
interval and the listener running as if the toggle were on. A check scores a mock peer, so its result depends on the signal strength only; the
values in `MCCandidates` are those that `Scoring` computes for that peer, and an
`ASSUME` there makes TLC compare them.

### Scoring

A 32-bit number is a pair of 16-bit halves, because TLC's integers are signed
32-bit ones; a fraction is a pair. `&` and `|` are defined bit by bit (`BitAt`,
`FromBits`), without the library's recursive operators, so that they can be proved
about; the loop of `buildMaskFromTokens` is the `|` of the bits of all tokens, since
`|` does not depend on the order. `Popcount32` is the code's sequence of shifts,
masks and a multiplication, `AddToMask`, `BuildMaskFromTokens` and `JaccardMask` are
the functions of those names, `InterestSimilarity` is the masks' index with the
fallback on raw interests, and `WeightedSum` has the code's weights in hundredths.
What `normalizeTokens` finds in an interest and the hash of a word are constants;
the instance has real words with the bits that FNV-1a gives them.
`Compatibility` adds the two places where Home calls it: the profile is compiled
when it has been loaded, and each check compiles the peer's and scores it. The code
has one mock peer; the scorer is checked for any.

## Runs

| Run | Instance | Result |
| --- | --- | --- |
| `chat` | 2 devices, 1 session, 1 text from one of them, 1 broken socket | `TypeOK`, `MutualConsent`, `ConsentInv`, `KeyAgreement`, `RefusalStands`, `ComeCloserSpec`, `HandshakeCompletes`, `HandshakeQuiesces`, `MutualReveal`, `RefusalReaches` hold |
| `chat_again` | `AgainSpec`: 2 devices, 2 sessions, 3 texts from the caller, 1 broken socket | `LeftInv`, `SocketsOwned`, `TextsContiguous` hold |
| `switch_heard` | 3 devices, 2 sessions with a reused screen, 1 text each | `OnlyPartiesHear` holds |
| `text_overtakes_key` | 2 devices, 1 session | `ArrivingTextReadable` fails |
| `switch_consent` | 3 devices, 2 sessions with a reused screen | `MutualConsent` fails |
| `link_requests` | 3 phones, 1 turn-on each, 2 requests, 1 broken socket | `TypeOK`, `InvitationInv`, `CrashNeedsGhost`, `MeetingSpec`, `NoLastingGhosts`, `RequestShown` hold |
| `visibility` | 2 turn-ons, 2 presses at once, 2 epochs, 2 Bluetooth changes, any one call may fail, again and again | `TypeOK`, `SearchesWhenOn`, `AdvertisesWhenOn`, `BecomesVisible` hold; `OffMeansOff` holds for a user who was never hasty |
| `candidates` | 3 ids, a list of 2 rows, 2 signal strengths, names cut anywhere | `TypeOK`, `NoPhantoms`, `ListFollowsRadio`, `ScoreStays`, `GoneDisappear` hold |
| `compatibility` | 45 profiles of the user, 16 of peers, 4 signal strengths, 12 words | `TypeOK`, `MasksAreSets`, `SharedInterestCounts`, `CloserNoWorse`, `HighScoreSharesInterests` hold |
| `off_leaves_something` | 2 turn-ons, 2 presses at once, 2 Bluetooth changes, `loadProfile()` may reject | `OffLeavesNothing` fails |
| `chat_but_scanning` | 1 turn-on, patient user | `ChatMeansNotScanning` fails |
| `unreachable_id` | 1 turn-on, 2 epochs, patient user | `ReachableUnderOwnId` fails |

What the passing runs show. However the two Come Closer dialogues interleave, a
handle shows only when both said Yes in the same session, and never in a session
in which someone said No; two Yes do lead to both handles, also when the requests
cross; a No gets through although the one who says it leaves. What is answered in a
dialog that outlived its screen, even against one's own No, changes nothing on any
screen, and no way of leaving leaves a socket open. The handshake works
whoever arrives first, although the relay drops the first key when nobody is
there to get it, and it does not loop. Texts show in order and without gaps.
Nobody enters a session other than its caller and the phone it invited; a request
to a phone that is registered comes up there although its sender hangs up at
once; and entries of phones that left do not stay in the server, even when a send
to one of them has ended somebody else's handler, except those of handlers that
crashed, for which somebody must have asked for a phone that was already gone.
While the toggle shows on the radio searches whenever Bluetooth is on, under any
presses, failures and Bluetooth changes; as long as `toggle()` itself has not failed it
searches at no other time, and a patient user leaves nothing running.
Whoever is listed is listed under the very digits it registers with, although a
shortened name may reach the app with an odd digit at its end; who was heard in the
last three seconds is on the list unless newcomers pushed it out, and who was not
heard for longer than one more second is not. The masks compute what sets would,
collisions of words included; a common interest counts if both entered it among the
first 16, which the fallback compares; nobody scores less by coming nearer; and 70
points, which the app explains by shared interests, cannot be had without them unless
different words hash to the same bit.

What the others show:

* `text_overtakes_key`: the side that has the key may send texts before its own
  key is out, because sending the key waits for `loadProfile()`. Such a text
  arrives at a screen without a key and is dropped in silence, against "each
  client decrypts locally and renders" (`README.md:97`).
* `switch_consent`: accepting another request during a chat reuses the screen
  with `myWantsToCloseRef` still set. Ben's Yes to Ana reveals Cid's handle to Ben
  with no Yes in that session, against "Both want to close - reveal Instagram"
  (`Chat.tsx:177`). All the theorems about consent are therefore about `Spec`.
* `off_leaves_something`: the press that turns off fails to load the profile; the
  `catch` (`Home.tsx:142`) sets the toggle to off and stops nothing, against "opt-in
  visibility and easy toggles" (`README.md:165`). The next press starts everything once
  more. This is the shortest way; the instance has four more, without any failure:
  the stop comes during the `await` of `buildAndAdvertise`, which is not cancelled and
  advertises afterwards (`orchestrator.ts:45`); the stop comes within the 100 ms before
  the request socket is opened (`Home.tsx:109`); of two quick turn-ons only the second
  is remembered and cleared (`Home.tsx:69`); and, for a patient user too, `stopAdvertising`
  keeps the payload, which Bluetooth coming back puts on the air (`BLEModule.swift:50, 92`).
* `chat_but_scanning`: "Stop scanning before navigating to chat" (`Home.tsx:285`)
  does not happen when a request is accepted, because of the stale closure.
* `unreachable_id`: after a rotation the advertised id is not the registered one. The
  trace takes it that CoreBluetooth accepts `startAdvertising` while advertising;
  otherwise the new id goes on the air with the next Bluetooth change.

Five behaviours are in the models, or near them, without a run of their own:

* Ana's confirmation is open when Ben's request arrives on top of it. She answers No,
  leaves, finds the confirmation below and answers Yes: "You both agreed! Social media
  revealed." (`Chat.tsx:297`), although she refused. Nothing is revealed, which is what
  `ComeCloserSpec` and `RefusalStands` are about; the sentence is a dialog `closer` that
  `LateConfirmYes` opens.
* Two dialogs that end the chat lie on each other, or the 500 ms timer is late: the
  second `goBack()` (`Chat.tsx:197, 299`) runs when the user is in another chat already,
  and leaves that one (`LateBack`). `SocketsOwned` says that its socket is then closed.
* A reused screen has the key of its first session, so `isFirstHandshake`
  (`Chat.tsx:112`) is false for the new peer's key and it is not answered; a peer that
  joins after our key was sent gets none. `HandshakeCompletes` is therefore claimed for
  `Spec` and not for `SwitchSpec`.
* "hiking" and "fishing" hash to the same bit, so their masks are equal, and 70 points
  are explained by "high shared interests" (`Home.tsx:198`) where there are none. Both
  words are in the instance of `compatibility`; `HighScoreSharesInterests` leaves such
  pairs out.
* The race of `startScanning` with its delegate, described under Visibility.

### Bounds

`MaxSaid` texts per device: two are needed to see a text out of order, three to see
one missing between others; consent needs none, one makes texts interleave with it.
`Talker`, the devices that send texts at all, leaves one of two devices silent in
`chat`, where texts only have to be in the way, and in `chat_again`, where three in one
direction show order and gaps; the screens of caller and callee run the same code and
either may come first. That the two sessions of `chat_again` may be exchanged for each
other is its symmetry.
`MaxLost` broken sockets: after one of the two sockets of a session is gone nothing
can be exchanged, so a second loss adds nothing. One session of two devices is all
that consent can distinguish, since screens share nothing across sessions; two
sessions of the same two devices are needed for what a first chat leaves behind in a
second, two with a common member for a reused screen. Three phones and two
requests in `LinkRequests` give requests that cross, two requests to one phone and a
third phone that must not get them. `MaxStart` 2 and `MaxPress` 2 give two
overlapping turn-ons, or a turn-off racing a turn-on; `MaxEpoch` 1 is one rotation;
`MaxPower` 2 lets Bluetooth go and come back once; `Faults` is everything in
`visibility`, one call at a time (`MaxFaults` 1). `MaxItems` 2 instead of 50 with
three ids makes the list overflow; three ids of 8 different bytes each exercise every
position of the name; one signal strength is good enough for a link and one is too
weak to score. The words of `compatibility` include bits 31, 32 and 63 and two words
with one bit; the signal strengths are both sides of the cutoff, the upper end and
one beyond; `FallbackTokens` 2 instead of 16 makes lists of three exceed it. The
proofs need none of these bounds.

Deadlock is not checked: a chat that both have left and a phone that nobody
touches are meant to be at rest.

### Fairness

`Chat`: weak fairness of `System`, that is of sockets that open, the relay's
loop, delivered messages, resolved promises and timers, taken together. They are
driven by event loops that run whatever is ready, and each such step uses up
something finite, so nothing more is needed. Users and broken sockets are not
fair: nobody has to answer a dialog. `Visibility`: a build does not await its
promise for ever, though whether the promise resolves or rejects is open (weak fairness
of `BuildSettles`); nothing else is counted on. `LinkRequests`: as in `Chat`.
`Candidates`: time passes and the interval runs; nobody has to be heard.

## Proofs

`ChatProofs` proves `TypeOK` for `Spec` (`TypeCorrect`) and with reused screens
(`SwitchTypeCorrect`). `TypeOK` is inductive as it stands: it includes that a
screen which is there has a session and a key pair, which is what makes
`clientRef.current` and the shared key well defined.

It also proves `ConsentInv` (`ConsentInvariant`) and from it
`MutualConsent` (`RevealNeedsConsent`) and `KeyAgreement` (`KeysAgree`), all for
`Spec`. Neither property is inductive: what a screen shows depends on messages
and dialogs that came before. `ConsentInv` closes the gap by saying of every
place where information rests what it is worth:

* `Sent(C, d, s)` is the set of messages device `d` may have sent in session `s`
  when the consents are `C`: a public key is `d`'s own of that session, a
  `close_request` means that `d` agreed, a `close_accept` that both did;
* `QueuesBacked`: `pendingMessages` and `up` of `<<d, s>>` hold messages of `d`,
  `down` holds messages of the other party. This is where the relay's forwarding
  matters, and why only the parties of a session may join it;
* `Asking(C, d, s)`: an open prompt means that the other party agreed;
* `Backed(C, d, r)`: the flags, keys and dialogs of a screen follow from `C`.

Consents only grow, so everything already in flight stays backed (`Sent`,
`Asking` and `Backed` are monotone in `C`); one step per action then shows that
what the action adds is backed too. The assumptions are those that `RelayClient`
and `Chat` state about their constants: each session has two different parties,
`None` is none of the values, bounds are natural numbers. The key fact for
`close_accept` is that its sender answers a prompt, and the prompt is backed by
the other's request.

`LinkProofs` proves `TypeOK` (`LinkTypeCorrect`), `InvitationInv`
(`InvitationInvariant`) and the refinement (`LinkImplementsRendezvous`) of
`LinkRequests`. `InvitationInv` says of each place a request can be (`up`, `down`,
`alerts`, `leaving`) that its session was opened by the caller, and from `down` on
that it is at the phone it was addressed to; in `up` it is on the socket it is from.
With that, `CrashNeedsGhost` (`CrashesNeedAGhost`) is inductive: only two steps crash a
handler, and `dead` and `entered` only grow. For the refinement, a step of `NavigateTimer` maps to
`Answer` of `Rendezvous`, one of `SendLinkRequest` to `Call`, every other step to a
stutter. The assumption is `LinkAssumption`: bounds are natural numbers and `None`
is no id.

`RefusalProofs` proves `RefusalStands` (`NoMeansNo`) and that `Chat` implements
`ComeCloser` (`ChatImplementsComeCloser`), both for `Spec`. A No could be undone if
its giver were asked twice, or were asked after having said Yes; the code has no
counter that prevents it. What prevents it is spread out: the button is hidden once
`myWantsToClose` is set, dialogs cover it, and a session is opened once. So
`RefusalInv` follows the one request of each party through `pendingMessages`, `up`
and `down` until it is noted in `peerWantsToClose` (`OneRequest`: it is in at most one
of these places, and in none while its sender may still ask), says that a session not
yet opened has no answers (`Unopened`), and ties the answers given to the flags and
dialogs of the screen (`Answers`: at most one prompt; the user's own question lies
below it; after a No the dialog that ends the chat covers whatever is left). It follows
that Yes and No given on the screen are disjoint. Of the abstract steps a Yes is `Agree`, a No
is `Refuse`, a late answer is `AnswerLate`, and setting `showInstagram` or leaving are
the steps of `shown`; all other steps stutter.

What screens leave behind is `LeftInv` (`LeftInvariant`). It is inductive together with
`RefusalInv`, which says what a stack of dialogs looks like at the moment of leaving
(`ScreenApart`). Two facts carry it: no step opens a session twice or closes a socket
that is not there (`Kept`), so what was left belongs to a session its device never
enters again; and a late step changes the remains of one instance only (`LeftBy`,
`LeftEdit`), except that a late `goBack()` adds those of the screen it leaves
(`LeftLeaves`). `Kept` also gives `SocketsOwned` (`NoSocketLeftOpen`). `NoMeansNo` covers
late Nos through `LeftInv`: who gives one never agreed in that session.

`TextProofs` proves `TextsContiguous`, for `Spec` (`TextsInOrder`) and for the
specification that the run checks (`AgainInOrder`); that `AgainSpec` is a restriction of
`Spec` is a lemma. `TextInv` says of the texts of a party `d`, numbered as typed, that
there are stages `a <= b <= c`: those up to `a` have been shown or are lost to the
other screen, `a + 1` to `b` are in its socket, `b + 1` to `c` in that of `d`, and `c` is
all that was said while `d` can speak (`Stages`). Around this it needs that no text
waits for a socket to open (`Silent`), because `d` has no key before that, and that a
screen the relay has not registered, or that has no key, has shown nothing
(`Listener`): otherwise a text could be missed between two that are shown. `LeftInv`
enters here too: a frame taken by a screen that was left is none that a present one
misses.

`SwitchProofs` proves `OnlyPartiesHear` with reused screens, for `SwitchSpec`
(`PartiesOnly`) and for the specification of the run (`TalkersPartiesOnly`). `HearInv`
says that a text stays in the queues of its session (`QueuesApart`) and that a screen
listens only in sessions of its device (`Attends`), although the client of an earlier
session may still deliver to the reused screen while it closes.

`CandidatesProofs` is about the list, from `CandidatesAssumption` (sizes are positive,
ids and fingerprints are 8 bytes) and `NoCollision` (six bytes tell the ids apart).

* The way of an id, for every payload: `Base64RoundTrip`, that decoding undoes encoding
  for data of any length, and `IdComesBack`, that whatever number of digits of a local
  name arrives, the payload is ignored or comes up under exactly its sender's id. The
  argument counts digits: 12 bytes are needed to be listed, so at least 23 digits have
  arrived, of which the odd last one lies outside the id.
* `ListInv`: every row is that of a phone around and as old as that phone has been
  silent; while the interval runs no row is older than the limit, and between two runs
  all are younger; whom the radio heard within the limit is listed or was crowded out.
  From it follow `TypeOK` (`CandidatesTypeCorrect`), `NoPhantoms` (`NobodyInvented`) and
  `ListFollowsRadio` (`ListIsCurrent`). None of these is inductive by itself: the list
  knows ages, the properties speak of what was heard.
* `ScoreStays` (`ScoresStay`): each step is shown to keep scores row by row
  (`ScoresKept`); that an id has one row makes this the property.

`VisibilityProofs` proves four properties of `Spec`, for any number of presses,
turn-ons, rotations and Bluetooth changes and any set of `Faults`. The first two need no assumption about the
constants, the others that these numbers are natural ones and `None` is none of the
values (`VisibilityAssumption`, `MaxPowerAssumption`).

* `ToggleTellsTheTruth` (`SearchesWhenOn`) holds for hasty users too. Neither the
  toggle nor the radio looks at the other; `ScanInv` adds the flag `isScanning` of
  `BLEModule.swift` that stands between them and is what a Bluetooth change goes by.
  After a failure of `toggle()` only one direction is left: on still means searching.
* `PatientOffMeansOff` (`OffMeansOff`). What turning on starts is found again through
  five references of different kinds, so the property is not inductive. `PatientInv`
  says that as long as no act was hasty and `toggle()` has not failed the phone is
  `Orderly`: when on there is one
  of each thing and every reference is to it, or its 100 ms timer still runs
  (`Running`); when off there is none (`Stopped`); and the values captured by a press
  or an open dialog are those of the present render. `OffLeavesNothing` shows
  what happens otherwise.
* `VisibilityTypeCorrect` (`TypeOK`), which says of every captured reference that it is to
  an orchestrator already made. The number of turn-ons and of pending builds is
  bounded, but not by a guard of the step that counts up: a turn-on was admitted when
  the button was pressed, a build when the interval ticked. `VisInv` adds this account
  (`Accounted`), and that an orchestrator not yet made has no id.
* `VisibleWhenOn` (`AdvertisesWhenOn`), for hasty users too. When Bluetooth comes back
  the native module restores the payload that it remembers, not the one the present
  orchestrator built; `AirInv` says that once there is an id, a payload is remembered,
  unless `startAdvertising` has thrown.

`CompatibilityProofs` is about the scorer, for all words, hashes, profiles and signal
strengths, from `ScoringAssumption` (a hash is one of 64 bits, interests consist of
words) and `CompatibilityAssumption` (ages are natural numbers, interests are lists,
signal strengths are integers). No bound of the run enters. It goes from the bits up:

* Bits. A half is four nibbles (`PackBits`, `BitsBack`); `&` works nibble by nibble
  (`AndPacked`); so one step of `Popcount32` at a time, pairs, nibbles and bytes hold
  the number of their ones and no field runs over into the next (`PairStep`,
  `NibbleStep`, `ByteStep`, `TopByte`), also when bit 31 is set and the subtraction is
  one of signed numbers. This gives the sum of the ones of eight nibbles
  (`PopcountNibbles`).
* Sets. `MaskOf(B)` is the mask whose bits are the set `B`. The loop over the tokens
  makes the mask of the bits they hash to (`BuildMask`), `&` and `|` of masks are those
  of the intersection and the union (`AndMask`, `OrMask`), and the count is the
  cardinality (`PopcountCounts`, four elements at a time). `MaskCountsBits` says the
  last for the masks the code builds; `MasksAreSets` (`MasksComputeJaccard`) follows.
* Score. A Jaccard index is a share: between 0 and 1, and not 0 when something is shared
  (`JaccardShare`), which with the fallback gives `SharedInterestCounts`
  (`SharedInterestNeverNothing`). With shares for interests and bio the weighted sum is
  at most a hundred (`SumBounds`) and grows with the proximity (`SumMonotone`), and so
  does what `Math.round` makes of it: `TypeOK` (`CompatibilityTypeCorrect`) and
  `CloserNoWorse` (`NearerNeverWorse`). For `HighScoreSharesInterests`
  (`HighScoreIsShared`): without interests there are at most 60 points, and to be
  rounded to 70 the sum must reach 69.5, so the index of the masks, or that of the first
  entries if the fallback decided, is large enough; where no two words share a bit the
  masks count words (`BitsCount`, `JaccardOfWords`).

The state machine around it is simple; its invariant `CompatibilityInv` says that the
profile is a compiled one of the user's and that the result shown is its score.

Only model-checked: the liveness properties (`HandshakeCompletes`,
`HandshakeQuiesces`, `MutualReveal`, `RefusalReaches`, `NoLastingGhosts`,
`RequestShown`, `BecomesVisible`, `GoneDisappear`), since fairness is beyond the prover.
Every other property that a passing run checks is a theorem.

## Not modelled

* Most of the repository by size is CocoaPods under `ios/Pods` and generated project
  files: third-party code. The app itself is about 2600 lines of TypeScript, Swift and
  Python, and the modules cover what of it decides anything.
* The interest fingerprint: a keyed hash of which two bytes go on the air and which
  nobody reads. Tags outside its dictionary all get the same number
  (`utils/fingerprint.ts:25`), without any effect.
* The peer of a compatibility check is a mock (`Home.tsx:158`), so the age check that
  follows is about the mock; nothing can be said about real peers yet.
* Two sockets under one id: each turn-on has its own id and opens one socket, so the
  app never overwrites an entry of `link_request_connections`. A phone whose id is not
  built when the 100 ms are over asks for the endpoint of an empty id, which the server
  does not have (`Connect` in `Visibility`); it stays visible and unregistered.
* Several crossings that users would notice are not excluded: two people who request
  each other at the same time go to two different sessions, and a caller is not told
  that a request was dropped or rejected.
* Onboarding, profile storage, configuration: plain I/O. Their `await`s are
  modelled where others depend on them.
* `matching/ai.ts` is never called; `chat/session.ts` and `crypto/ephemeral.ts` are not
  imported.
* The simulated BLE source and the Android project: `BLEModule` exists on iOS only.
* Layout, wording, and opening the Instagram app.

## Plan

1. (done) `RelayClient`, `Relay`, `Chat` with safety, liveness and reuse;
   `LinkRequests` with its abstract specification `Rendezvous`; `BleRadio`,
   `Visibility`; type, consent, key and refinement theorems.
2. (done) `Payload` and `Candidates`; `Scoring` and `Compatibility`; the abstract
   dialogue `ComeCloser` and the refinement that shows `Chat` implements it; the
   theorems about `Visibility`.
3. (done) Proofs: that `Chat` implements `ComeCloser`, and `RefusalStands`; the order
   of texts; reused screens; the way of an id through `Payload` and the list of
   `Candidates`; types and the advertisement of `Visibility`.
4. (done) Proofs: the scorer from its bit operations to the score, and with it every
   safety property that a run checks.
5. Shorter arguments where facts about queues are shown several times over.
