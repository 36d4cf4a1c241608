# libieee1284: a TLA+ verification development

libieee1284 lets a user-space program talk to whatever is plugged into a
parallel port. This directory models the library's control logic in TLA+,
checks it with TLC on small instances, and proves the central facts with TLAPS
for every instance.

## 1. Inventory

| part | source | state | operations | talks to |
|---|---|---|---|---|
| port life cycle | `interface.c`, `state.c` | `opened`, `claimed`, `ref`, `type`, `fn`, `fd` of `struct parport_internal` | `ieee1284_ref/unref/open/close/claim/release` | access methods, kernel |
| port discovery | `ports.c` | `struct parport_list`, one reference per entry | `find_ports`, `free_ports`, `add_port`, `deref_port` | `/proc`, detection |
| device ID | `deviceid.c` | none of its own | `ieee1284_get_deviceid`: cached copy, or open-claim-read-release-close | life cycle, negotiation, nibble mode |
| negotiation, termination, ECP direction | `default.c` | `current_mode`, `current_phase`, the control lines, the direction of the data lines | `negotiate`, `terminate`, `ecp_fwd_to_rev`, `ecp_rev_to_fwd` | register accesses, the peripheral |
| transfers in software | `default.c` | the same, and the caller's buffer | nibble, compatibility, byte, EPP, ECP reads and writes | the peripheral |
| port I/O, `/dev/port` | `access_io.c` | shadow `ctr` of the control register | register accesses, `wait_status` | hardware |
| ppdev | `access_ppdev.c` | `current_mode`, `current_flags`, `nonblock`, `fd` | everything, by ioctl | kernel driver |
| LPT (Windows) | `access_lpt.c` | as port I/O | as port I/O | device handle |
| configuration | `conf.c` | `conf.disallow_ppdev`, the tokenizer's line and its place in it, `config_read` | tokenizer, `read_config_file` | discovery, life cycle |
| detection | `detect.c` | `capabilities`, `detected` | `detect_environment` | file system |
| Python bindings | `ieee1284module.c` | a pointer to a `struct parport` | argument conversion | the library |
| Solaris driver, delays, debugging, test program | | | | not part of the logic |

How the parts interact: calls only. There is no lock and no callback in the
library; what runs concurrently is *other processes* on the same physical port
(they meet in the kernel's ppdev driver, or not at all with raw I/O) and the
*peripheral*, which moves on its own while the library polls the status lines
against a deadline.

What is hard: reference counts across every legal order of calls; state that
survives a close; a claim that sleeps, fails, or is held by a process that
dies; sequences of calls of which one in the middle fails; a peripheral that
answers after the library gave up, refuses, loses power or garbles the lines;
a mode, a phase and a bus direction recorded in the host that the other end of
the cable does not share. `PROJECT.json` lists each hazard at its line.

What makes each part correct:

* life cycle: the count equals the reasons to keep the struct; nobody entitled to a struct
  finds it freed; `claimed` is true exactly when the kernel's claim is ours, but for an open
  that asks for capabilities; nothing stays behind; the documented contract absent, closed,
  open, claimed;
* device ID: the implicit open-claim-release-close is balanced; a buffer with room for an ID
  gets all of it, and never more than it holds;
* negotiation: both ends agree on mode and direction between calls; the verdict matches the
  mode and what the peripheral did; the data lines have one driver; every call returns;
* transfers: the bytes read are the bytes sent, in order, each once, however the application
  cuts the stream into calls; a session is not lost before its data is; the bytes a write
  counts are the bytes the peripheral took; the phase recorded between two ECP calls is the
  direction of the bus;
* ppdev: what the library remembers is what the kernel has; a transfer runs as it was
  called; a handshake ends on an interrupt of its own;
* configuration: the tokens of a line are those the manual page says it spells, every file
  is read to its end, and ppdev is disallowed exactly when its words say so;
* discovery: the list is sorted, bounded and complete, and a port opens on the device of its
  own number, whatever the system has become since it was looked at; `find_ports` returns
  when other processes give back the port that detection claims.

## 2. Modules

| module | models |
|---|---|
| `PortLifecycle` | the life cycle, the list's references, the claim, the outer sequence of `get_deviceid`; several processes, one port |
| `PortContract` | the abstract specification of a port: absent, closed, open, claimed |
| `MCPortLifecycle` | two processes, one with only ppdev, one with every method |
| `PortLifecycleProofs` | theorems about `PortLifecycle` |
| `Negotiation` | `negotiate`, `terminate`, `ecp_fwd_to_rev`, `ecp_rev_to_fwd` of `default.c`, over wires to a peripheral |
| `MCNegotiation` | the modes an application tries and what the peripheral accepts |
| `NegotiationProofs` | theorems about `Negotiation` |
| `ByteChannel` | the abstract specification of a read: a stream of bytes, each once, in order |
| `NibbleRead` | `default_nibble_read` and the peripheral that answers it |
| `NibbleReadProofs` | theorems about `NibbleRead` |
| `Ppdev` | the block transfers, timer and nAck handshake of `access_ppdev.c` against the kernel's driver |
| `PpdevProofs` | theorems about `Ppdev` |
| `EcpTransfer` | ECP reads and writes with the turns of the bus they make, and the peripheral at the other end |
| `MCEcpTransfer` | the stream that peripheral sends |
| `EcpTransferProofs` | theorems about `EcpTransfer` |
| `SoftTransfers` | compatibility writes, byte reads, EPP reads and writes on one port, and the peripheral |
| `SoftTransfersProofs` | theorems about `SoftTransfers` |
| `ConfigFile` | the tokenizer and the two parsers of `conf.c` |
| `ConfigFileProofs` | theorems about `ConfigFile` |
| `Discovery` | `ieee1284_find_ports` over `ConfigFile`, detection, the choice of a method at open, the source of a device ID |
| `MCDiscovery` | the configuration files, names and systems of the run |
| `DiscoveryProofs` | theorems about `Discovery` |

Modules that interact: `Discovery` composes with `ConfigFile` (an instance on the
same variables, stepped inside `find_ports`); `NibbleRead`, `EcpTransfer` and
`SoftTransfers` implement `ByteChannel`; `PortLifecycle` implements `PortContract`.
`Negotiation` ends where the transfer modules begin (`NewSession`), and they take over
the wires as it leaves them.

### PortLifecycle

Each process has its own `struct parport` (`alive`, `opened`, `claimed`, `ref`,
`type`, `fd` are its fields) for one physical port; `owner` is the kernel's
claim. `listed` and `held` record what the application is entitled to: the
list it has not freed and the references it took. Every call of the library is
one action, except where another process can get in between: wherever the library sleeps
in `PPCLAIM` (`ClaimGranted`, `ClaimError`), and in `get_deviceid`, whose
five library calls are five actions (`Gd...`). The library claims in three places:
`ieee1284_claim`; `find_capabilities`, when a port is opened by ppdev with capabilities to
fill in (`OpenAsks`, `OpRelease`), with `priv->claimed` unset; and `check_dev_node`, in the
first `find_ports` of a process (`FindPorts`, `FpRelease`), before there is a struct. In the
last the node that opens first may be this port's or another's. `Exit` is the death of the
process at any point. A call the library refuses at its first test changes
nothing, and is a stuttering step.

`ReleaseFirst` is the application's discipline of releasing before closing, which
the code does not enforce. The properties of references and lifetime hold without
it; the claim properties need it, and the run `stale_claim` shows why. `DeviceidBalanced`
speaks of the calls of `get_deviceid` that got their claim; what becomes of
the others is in section 5.

What is abstracted: names, addresses and files are left out; which methods
detection found usable is the constant `Methods`; an initialisation succeeds or
fails by choice. One process holds one struct, found by one list at a time.

### Negotiation

One control write, or one wait, is one action, named for the event of IEEE 1284
the comments of `default.c` give it. `ctl` holds the control lines that are
high, `status` the status lines, `reverse` whether the host's data drivers are
off. A wait ends when the lines match or at its deadline, after a poll that did
not match (`TimesOut`); what it polled last decides, as in `wait_status`.

The peripheral is not in the repository and is modelled from the events the
comments name: it recognises a request, latches the byte at the strobe, answers,
sets up ECP, reverses and turns the bus, and ends a session, each whenever it
likes. `timely` chooses once whether it always answers inside the deadlines;
`SwitchOff` takes its power at any point and leaves any levels on the status
lines; `SwitchOn` restarts it.

The application follows the documentation: it terminates between two
negotiations of special modes and turns the bus only in an ECP mode. With
`TerminateFirst` it also terminates once before it first negotiates, as
`get_fresh` does, because the I/O method does not set the mode at open (section 5).

### NibbleRead

Each wait of `default_nibble_read` is an action named for its event of IEEE 1284
and the nibble it belongs to (`Event9Low`, ..., `Event11High`); the status read
after a wait and the control write that follows it are one action (`ReadLow`,
`ReadHigh`), because the peripheral can only react to the write. `NextByte` is
the test for more data with the write that begins a byte, `Return` the end of
the loop. A nibble is a pair of the index of its byte and its half, so that a
nibble of the wrong byte is told from the right one; a status read finds `Junk`
when the peripheral no longer holds a nibble there. `log` is what was stored in
the caller's buffers since the session began.

`GiveUp` is the error path: the termination it calls is one step here and in
full in `Negotiation`. `NewSession` is a termination and a negotiation by the
application between two reads. The peripheral (external) has a supply fixed
when the session begins; data that arrives later, in reverse idle, is left out. It
answers whenever it likes, `timely` or not, and `SwitchOff` may take its power
at any point and leave any levels on the lines.

`Sound` (the session is on and the peripheral never lost its power in it) is
when `ByteChannel` promises anything. `EndsOnlyWhenDry` says what the code's
test for more data at even counts only costs: a peripheral with an odd number of
bytes is timed out and its session ended inside the read, but never before its
last byte was handed over.

### Ppdev

One open, claimed file of the kernel's driver. `mode`, `fast` and `nonblock` are
what the library remembers (`current_mode`, `current_flags`, `priv->nonblock`);
`kmode`, `kfast` and `onb` what they stand for in the kernel. A block transfer
is four steps, each with at most one request to the kernel, which may fail:
`DoNonblock`, `SetMode` (PPSETMODE), `SetFlags` (PPSETFLAGS), `Io`.
`do_nack_handshake` is `ClearIrq`, `Arm`, `WriteBefore`, `Select`; `Interrupt`, the
kernel's handler, comes in at any moment of it and outside it. `SetTimeout`
and `RestoreTimeout` are `set_timeout` called with a time of the application's
and with the pointer an earlier call returned. `Reopen` is a close and an open.

Of the kernel (external) the model assumes that PPNEGOT to compatibility mode
does not fail, that it is in compatibility mode after a refusal, and that PPWCTLONIRQ holds
for one interrupt. It does not assume that PPNEGOT refuses what it does not know: `negotiate`
passes on the error code of `which_mode` (`access_ppdev.c:497`), and a kernel that takes it
has that code for its mode (`E1284_NOTIMPL` in `kmode`), beside the mode the library records;
`CacheIsKernel` names the case. The
application negotiates from compatibility mode, as in `Negotiation`.

`use` says what an application uses the port for; transfers share no state with
the handshake or the timer, so the run takes them apart, and the theorems hold
for any combination. A control value is the set of lines that are high, the PC-style
register behind it has three of them inverted (`LinesOf`, `C1284_INVERTED`): `write_control`
converts the one to the other, PPWCTLONIRQ is given a control value for the register
(`Arm`). `HandshakeCompletes` says what the lines are after a handshake, that is, the
unconverted value, which is not what the documentation says (section 5). Left out: the other register accesses, which invert and keep no state,
and `wait_status`, whose loop is the one modelled for port I/O.

Five things this code does are in the model without a run of their own. Once
O_NONBLOCK is set it stays (`access_ppdev.c:454`: `nonblock` is set nowhere), where
`doc/interface.xml:1897` promises the inactivity timer to calls without
`F1284_NONBLOCK`. A PPSETFLAGS that succeeds hides a PPSETMODE that failed
(`access_ppdev.c:442`), so an EPP transfer can run in another mode;
`TransferAsAsked` leaves that out by name. A transfer that finds no data returns
`E1284_SYS`, not `E1284_TIMEDOUT`: system calls return -1, never `-EAGAIN`
(`access_ppdev.c:410`). A handshake that timed out leaves the kernel armed, and a
late interrupt changes the lines outside any call (`access_ppdev.c:339`). And
`set_timeout` given the pointer an earlier call returned sets the value already in
force (`access_ppdev.c:670`, `RestoreTimeout`).

### EcpTransfer

`default_ecp_read_data`, `default_ecp_write_data` and `default_ecp_write_addr`, one
register access or wait per action, each named for its event; the two writes are the
same code but for the level of nAutoFd and share their actions (`addr`).
`default_ecp_read_addr` is refused. A call that finds the session in the other phase
turns the bus first, with the steps of `default_ecp_fwd_to_rev` and `_rev_to_fwd`
(`f_turn`, `f_dir`, `f_ev39`, `f_ev40`, `b_turn`, `b_ev49`).

`NewSession` is a termination and a negotiation. Termination turns a reversed bus forward
from `REV_IDLE` only, and may fail (`Terminated`); nothing else on the way turns the data
drivers on, so after a turn that failed the session begins with the drivers off.
`undriven` records that, for the session, and the properties about bytes that are written name it;
`CountIsTransferred` does not, and the run `undriven_ecp` refutes it.

Bytes are named by their place in a stream. `Stream` is what the peripheral sends: an
element above 1 stands for a run-length count and its byte, 0 for a channel command,
at which the library stops. A count that does not fit what is left of the buffer is
left on the lines, with nAck low, for the next read (`LeaveCommand`). Host transfer
recovery is modelled as it is written: nInit is set high, which it is, then low, and
PError decides (`Stall`, `Buggered`, `Recovered`, `GiveUp`); on the wires it is a
request to turn the bus, and the peripheral may take it for one.

The peripheral (external) answers when it likes. A deadline that passes while it owes
an answer makes it late, at most `MaxLate` times; one that passes when it owes nothing
(no data, no power) costs nothing. `SwitchOff` may take its power at any step and leave
any levels on its lines. A short write is followed by one that starts at the first byte
not counted, as the return value asks an application to do.

The peripheral acknowledges whatever nAutoFd says about data and addresses; transfers
of length 0 are modelled for reads only. The properties that need a peripheral that was
never late say so (`late = 0`). `OneDriver` does not need it: its one exception is a session
in which a write has given up a stalled byte, which leaves nInit low with the drivers on.

### SoftTransfers

The four transfers with one handshake per byte, on a port that goes through modes
(`NewSession`) and keeps its wires: `default_compat_write`, `default_byte_read`,
`default_epp_read_data`, `default_epp_write_data` with `poll_port`. EPP addresses are
refused. `slipped` records that a call went on without waiting for an answer the
peripheral owed; compatibility writes do that by design of the mode, after each strobe
(`CompatCount`), and EPP transfers at their idle state (`EppIdle`).

The peripheral (external) drives the data lines in byte mode and in EPP reads; `bus`
is what it drives. In EPP it answers the data strobe only. `TurnsBack` is an
application that calls `ieee1284_data_dir (port, 0)` before it writes in
compatibility mode: the library leaves the drivers off after a byte read, and the
run `undriven_write` shows what comes of it otherwise.

`CompatBusy` is the error path with its termination, which in this mode is one
control write. An EPP read of no bytes is left out: it lowers the data strobe and
leaves a cycle open. `OneDriver` leaves out the one step of an EPP read in which it
does not hold: its idle state has nAutoFd low (`default.c:509`) before `data_dir` turns
the drivers off (`default.c:512`), and a quick peripheral drives in between.

### ConfigFile and Discovery

`ConfigFile` is `get_token` with the line it keeps from call to call, `disallow` with
its two words of lookahead, and `try_read_config_file`. Finding the end of a token
(`End`) and copying it (`Copied`) are recursive functions, as the two loops are
separate in the code and have to agree. A character is a string of length one; the
three words of the language are single letters, and of the white space there is one
blank and the newline. A line that ends in a backslash, at the end of a file, takes
`get_token` over its zero byte (`conf.c:99-103` steps over the character behind a backslash
before the loop looks at the length again). `ReadBehind` is what follows: the next call finds
a hash sign there and goes on, or neither a token nor the end of the line, for ever
(`where = "stuck"`). Left out: lines of more than 999 characters, and a `malloc` that fails,
which reads as the end of the file.

`Documented` is the manual page's reader: a '#' that is neither quoted nor escaped ends the
token that is open and begins a comment, wherever it is. The code looks for '#' only where a
token may begin, so the two differ on a comment glued to a word (`Glued`).
`TokensAsDocumented` leaves those lines out by name.

`Discovery` is `ieee1284_find_ports` on Linux: the configuration file on every call until
there is none (`config_read`), detection once (`detected`), one of two directories or a
guess, an entry at a time into a list kept in the order of names. An application may still
have a port of an earlier list (`kept`) when it calls again. In detection, `check_dev_node`
claims the node it finds, and sleeps for as long as another process has it (`Claimed`,
`ClaimFails`, `Take`, `GiveBack`). The system (external) is which devices open, which /proc
there is and what it lists; `Change` changes the one or the other, wherever the next step
may look. `short` says that memory ran out for a port, which `find_ports` does not report.
`Junk` is the content of a buffer that `populate_from_parport` never wrote
(`ports.c:174-193`). `Open` is `init_port`: the first allowed method that works, or the type
of the last tried. ppdev's init opens whatever the port's paths name, a device node or not,
and asks it nothing that has to succeed but PPEXCL: a guessed port, or one without a number,
opens with ppdev on `/dev/port` (`ports.c:278`, `ports.c:356`). `OwnNode` says so.

`GetDeviceid` is the choice of a source and the arithmetic of its lengths: the kernel's two
kinds of files, and the device itself through `get_fresh` with the count
`default_nibble_read` returns, for which the device is opened and closed again (`Borrow`).
What happens on the wires is in `NibbleRead`, and what a failing open or claim does in
`PortLifecycle`. `Char` is a signed plain char; `Asks` compares as `size_t`, in which what
is negative is very large (`Size`), and `read(2)` refuses a negative length (`Room`).
`IdIsWhole` promises a buffer of two bytes or more: into a shorter one `get_fresh` writes
the length field all the same. Its other exception is a length whose low byte is above 127
and which is read from the device (`Misread`). Two things are modelled as they are and claimed by no property: the
value returned for an `autoprobe` file leaves its length field out while the other sources
count it, and for a fresh ID it may exceed the bytes stored, as the count of
`default_nibble_read` does.

## 3. Runs

| run | instance | shows |
|---|---|---|
| `lifecycle` | 2 processes, at most 1 extra reference each, applications may close a claimed port; 157 thousand states | references, lifetime, leaks, the balance of `get_deviceid`, and that a process waiting for a claim gets it, in whichever call |
| `claim` | the same with applications that release first; 83 thousand states | the flag is the kernel's claim, and `PortContract` is implemented |
| `stale_claim` | the same as `lifecycle` | `claimed` survives a close (finding) |
| `negotiation` | 7 modes, of which 3 bytes are accepted; 1 loss of power; 419 thousand states | all negotiation properties |
| `nibble_read` | calls of at most 3 bytes, at most 5 bytes in a session, 1 loss of power; 250 thousand states | the channel is implemented, host and peripheral stay in step between calls, and calls return |
| `ppdev` | 9 negotiable modes and one the kernel does not know, 7 sets of flags, 3 times, 2 control values, 4 interrupts; 274 thousand states | records agree with the kernel whichever request fails; transfers and handshakes do what was asked |
| `early_interrupt` | the same as `ppdev` | a handshake returns 0 with `ct_before` on the lines (finding) |
| `ecp_transfer` | reads of 0 to 3 bytes, writes of 1 or 2, 2 bytes to send of which the second is an address; a stream of a run of two, a byte, a channel command and a byte; 2 late answers, 1 loss of power, sessions after a failed turn; 2.2 million states | direction, drivers, bytes each way, and that only a peripheral with nothing to say holds a call up |
| `undriven_ecp` | writes of one byte, a peripheral that is never late and once without power | a write in a session after a failed turn counts a byte nobody drove (finding) |
| `soft_transfers` | transfers of 0 to 2 bytes, 2 bytes each way in a session, 2 late answers, 1 loss of power, sessions in any order of modes; 784 thousand states | both ends agree on the bytes moved, reads implement the channel, calls return |
| `undriven_write` | one byte each way, an application that does not call `data_dir` | a compatibility write after a byte read counts bytes nobody drove (finding) |
| `discovery` | about 7,900 configuration files, 3 names, 4 sets of devices, 3 kinds of /proc, a list of at most 2, one port kept of an earlier one, one change of the system; IDs of 3 to 400 bytes, buffers of 0 to 600; 397 thousand states | the parser against the manual page, the list, the node a port opens on, the lengths of IDs, and that `find_ports` returns |

Bounds. Two processes suffice to show every conflict over a claim, since the
kernel grants it to one at a time; `MaxHeld = 1` gives counts up to 3 (list,
reference, open), and each further reference only repeats `Ref` and `Unref`;
the theorems cover every value of both. The modes contain each shape the code
tells apart: nibble (Select low), a flag, an unaccepted mode, the three cases of the
`switch`, an ECP mode with its extra events, and compatibility mode. One loss of
power may fall between any two steps of any call, before or after a session.
In `nibble_read` supplies and lengths are of both parities, which is all the
code tells apart, and a session of 5 bytes takes at least two calls of 3, so
that a call can end or start at an odd byte of the stream and at its end.
In `ppdev` the sets of flags reach every branch of `which_mode`; no counter but the
interrupts grows, and 4 of them allow one before, two within and one after a
handshake, and a second handshake after any of them.
In `ecp_transfer` a buffer of 1 leaves the run of two for next time, one of 2 is filled by
it and one of 3 takes the byte behind it too; the stream ends behind a channel
command, so a read can end at it, stop short before it, or wait for ever; one late answer can
fail a turn, stall a byte or have it taken twice, and the second can come in the
recovery from the first. In `soft_transfers` two bytes distinguish the first, the
next and the last of a transfer, and sessions are unlimited in number, so each mode
inherits the wires of every other. In `discovery` the files are every line of up to four
characters from a blank, a letter, both quotes, the backslash, the comment and a token
character, with and without a newline, and every sequence of up to five of the three words and
another, on one line or one a line; four characters are enough for a quote within quotes and an
escaped character within them, five words for a false start of three behind another.
The limit of 3 for `MAX_PORTS` is reached by a directory of three names, one of them without
digits. The lengths of IDs have low bytes below and above 127 and are on both sides of every
buffer; the buffers begin at 0, so every difference that can be negative is.

Deadlock is checked in the passing runs but `ecp_transfer`: there is always a call an
application can make. In `ecp_transfer` a read may wait without a limit
(`default.c:658`) for a peripheral that is gone for good or has nothing to send, and
the system really stops; `CallsReturn` names these states (`Starved`).

Fairness. `PortLifecycle`: a call inside the library goes on (weak fairness of `LibStep`:
`get_deviceid`, and the releases that end an open and detection); the kernel serves sleepers
in turn (strong fairness of `ClaimGranted`, the kernel's wait queue); applications give a
claimed port back (strong fairness of `Release`), which `ieee1284_claim`'s documentation
asks of them. `WaiterServed` then says that the library never loses a claim. `Negotiation`:
the code of a call runs on (weak fairness of `HostStep`), and a timely peripheral answers;
`NibbleRead` the same. `CallsReturn` needs nothing of the peripheral in either: with
`timely` false it may stay silent for ever and the deadlines end every wait. `EcpTransfer`
and `SoftTransfers`: the code of a call runs on, and a peripheral with power answers in the
end, be it after the deadline (weak fairness of `Respond`; it moves by itself, and its
answers stay enabled until it makes them or the host withdraws the question). ECP reads need
that, as nothing else ends their wait, and so does host transfer recovery, which may be
repeated as often as it succeeds. `Discovery`: the code of `find_ports` runs on (weak
fairness of `LibraryStep`), the other processes give the port back (weak fairness of
`GiveBack`) and, though they may take it again and again, the kernel's queue comes to this
one in the end (strong fairness of `Claimed`). `CallsReturn` names the one other thing that
can hold it up, a file that ends in a backslash (`Stuck`).

The properties about agreement (`ModeAgreement`, `VerdictIsTrue`,
`StrobeIsAwaited`) are stated for a peripheral that is timely and was never
switched off: they cannot hold otherwise. `NoContention`, `ResultMatchesMode`,
`CallsReturn` and the first half of `CompatLinesReleased` hold in every case.

## 4. Proofs

`PortLifecycleProofs`, for any finite or infinite set of processes, any usable methods and
any `MaxHeld`. The inductive invariant `IInv` adds to the stated properties what they rest
on: which labels a live process can be at and what `get_deviceid` holds there (its open, its
claim, its reference), that an open struct has an initialised method and, on ppdev or
`/dev/port`, an open file, and that the kernel's owner is a live process with an open ppdev
file, or one in detection. The invariant is one predicate of a process, so a step of one
process is shown to keep it for that process, and to leave what it says of every other as it
was: the lemmas take the two apart. `RefExact` is needed for `NoUseAfterFree`: that
`deref_port` frees only when nobody is entitled follows from the count. `ClaimInv`, the
equivalence of the flag and the kernel's claim but for an open that asks for capabilities,
is inductive on top of it under `ReleaseFirst`. The refinement theorem maps every step to a
step of `PortContract` or a stutter.

`NegotiationProofs`, for any modes, any peripheral of the model and any number of
power failures. `DirInv` is why the data lines have one driver: `nInit`, which
lets the peripheral drive, is low only while the host's drivers are off, and
they go on only at event 49, where PError is high, which a driving peripheral
keeps low. `ResultInv` carries the verdict of a negotiation through the
termination it may end in. `Sync` relates each place of the host to the peripheral's
states, for a peripheral that answers in time and was never switched off: what the
one waits for is what the other is about to do. It needs both halves of every
handshake at once, as an event of the one end is only known to be heard by the other from
where that end is, and it is why the request byte is never strobed into a peripheral that is
not waiting for one (`StrobeAwaited`), and why mode and direction agree afterwards
(`EndsAgree`). `LinesInv` is what holds of the control lines whatever the peripheral does;
with `Sync` it gives `LinesReleased`. `VerdictInv` remembers what the peripheral took and
answered until the call returns (`VerdictTrue`).

`NibbleReadProofs`, for any supply, any lengths of calls, any number of power
cuts. `StreamInv` says, label by label, at which nibble of which byte both ends
are: what the peripheral holds is the nibble the host is about to read, and at
the boundary of a byte as many bytes were stored as were given. `DeviceInv` (a
peripheral in the middle of a byte has it to give) and `RoomInv` (a byte is begun
only with room in the buffer) carry the types; `DryInv` adds that the only wait a
timely peripheral can let run out is event 9 of a low nibble when it has
nothing left. `ChannelImplemented` maps `Event11High` to the delivery of a byte,
`GiveUp` and `SwitchOff` to the end of the promise, and every other step to a
stutter.

`PpdevProofs`, for any sets of flags, times and numbers of interrupts. `TransferInv` says
what each step of a transfer has established for the next, `HandshakeInv` that the kernel's
count is the number of interrupts since the handshake began, that without an early one the
kernel stays armed with the unconverted `ct_after` until the first, and that the lines are
then what the register makes of it. `WhichModeKnown` and `NegotiatedExact` are the facts
about `which_mode` that keep the records true: it yields a kernel's mode or none, and a
negotiation asks for the very mode that is recorded, unless there is none.

`EcpTransferProofs`, for any stream, lengths, addresses, number of late answers and power
cuts. The two ends share no word for the direction but PError and nInit. `WiresAsThere`
says, place by place, what the wires are for as long as no byte has stalled; `LateAtFault`
that without a late answer no byte stalls and no turn fails; `BusyIsNext` that Busy is high
only for the byte on the data lines, or for the one the host gave up waiting for, so that a
byte sent again and the byte taken twice are the same. `ExactlyOnce` and `CountedIsTaken`
follow from the last with the frame lemmas on what no step of a session undoes, in sessions
that began with the drivers on; `undriven` carries that from the turn that failed.
`OneDriver` needs no timely peripheral: it drives only where nInit is low, and but for a
stalled byte the drivers are off there. That a read keeps to its buffer is `TypeCorrect`: a
run-length count is accepted only where it fits. `ChannelImplemented` maps `GetByte`, the
step that stores a byte or a run, to the delivery of the channel, and every other step to a
stutter or to the end of its promise. `StreamInv` says how far the peripheral is ahead of
what was stored: by the byte or the run-length count on the lines, and by no more. It holds
in sessions in which a write stalled as well, since a write that gives up a byte leaves
nAutoFd as the next write needs it, so that no write ever acknowledges a byte the peripheral
offers; `TurnWires` is what the two turns of the link establish for that, late answers
included.

`SoftTransfersProofs`, for any lengths, supply and pace. `AsThere` says for each mode
which wire tells the peripheral whether it may move, and that it is therefore at most
one byte ahead of what the host has counted, and that only at the places `AheadTaken`
and `AheadGiven` name; between calls there is no such place, which is `InStep`. The
modes are proved apart, as the steps of one never run in another. `ChannelImplemented` needs
no application that turns the bus back: its `StreamInv` counts only what the peripheral gives.

`ConfigFileProofs`, for any files of any length: the word awaited is what the last
words returned call for, so the lookahead of `disallow`, which hands a token it did
not expect back to the loop, loses no place where the three words may begin.
`TokensAreRight` is about `get_token`, for lines of any length: its two loops and the reader
of the manual page, which keeps a token open until a character closes it, are
followed side by side. `EndEquation`, `CopyEquation` and `ReadEquation` show that the three
recursive functions exist and satisfy their equations, `Midway` says how they stand at one
place of a token (the end is still the same, and what the reader has and what is still to be
copied make the token), `ScanStep` goes on by a character or, at a backslash, by two, and
`WordRead` is the end of that. `Ready` is the state of the reader between two calls: a token
may still be open if the next character closes it. `LineInv` then says that what the line has
spelled so far are the last tokens returned. The inductions over the characters go through
`SetInduction`, induction for sets, which the library's well-founded minimum gives; its
induction theorems take an operator, which the provers cannot instantiate.

`DiscoveryProofs`, for any files, names, drivers and changes of the system. What detection
found may be out of date when a port is opened; the point is that it does not change once a
port was made from it, those the application keeps of an earlier list included, so a path is
never used under capabilities other than those it was made under. `SortedAdds` is the lemma
that an insertion adds the port and loses none. `ListInv` follows it through the scan: the
ports found so far, in order and each once, and none left out but for the limit or want of
memory. `IdWhole` goes through the sources one by one: `AsksEnough` is the arithmetic of the
length field, whose two bytes are read as signed characters and whose value is compared as a
`size_t`. `ConfigRead` takes the lemmas of `ConfigFileProofs` on the variables of
`Discovery`: a step of `find_ports` on its file is a step there (`SameToken` and the lemmas
before it), and begins in its initial state.

The assumptions are the named ones in the modules (ranges of the constants);
`ClaimIsTrue`, `ClaimsExclude` and `ContractImplemented` assume `ReleaseFirst`,
`StaysInStep` of `SoftTransfersProofs` assumes `TurnsBack`, `EndsAgree` assumes
`TerminateFirst`, and it and `VerdictTrue` that the modes are those of `ieee1284.h` that are
asked for by the byte of their family (`StandardModes`), and they say so. That two
ports have numbers of their own, that files are lines of characters, none of them empty, that
the length of an ID fits its two bytes and is more than theirs, and that a buffer is far
smaller than the addresses there are, are assumptions of `Discovery`;
`TokensAreRight` assumes the lines by name (`FilesAreLines`).

Only model-checked: the liveness properties (`WaiterServed`, `CallsReturn`), which
are outside what TLAPS proves. Every safety property of the passing runs is
proved, under the assumptions above.

## 5. Findings

Each of these is shown by a run that TLC ends with a counterexample.

* `ieee1284_close` does not clear `claimed` (`interface.c:56`): after a close and
  a new open, every access passes the test without a claim, and
  `ieee1284_claim` refuses (`stale_claim`).
* An interrupt between PPCLRIRQ and the control write of `do_nack_handshake`
  (`access_ppdev.c:331`) makes it return 0 with `ct_before` on the lines, where
  `ieee1284.h.in:210` promises `ct_after` (`early_interrupt`).
* A bus reversal that fails leaves the data drivers off (`default.c:265`, `default.c:216`),
  and an ECP write of a later session counts bytes that never were on the lines
  (`undriven_ecp`).
* `default_byte_read` turns the data drivers off and returns
  (`default.c:452`); a later compatibility write strobes lines that nobody drives and
  counts its bytes as transferred (`undriven_write`).

Further deviations seen while modelling. The models behave as the code does here; a
property that they would break names them as its exception, and no run is kept for them:

* `ieee1284_get_deviceid` returns with the port open when its claim fails
  (`deviceid.c:240`), where `doc/interface.xml:135` speaks of an implicit
  open-claim-release-close sequence.
* `default_nibble_read` returns the length it was asked for when the peripheral
  has no more data (`default.c:372`), where `doc/interface.xml:1973` promises the
  number of bytes transferred.
* `do_nack_handshake` gives PPWCTLONIRQ `ct_after` without the inversion `write_control`
  makes (`access_ppdev.c:328`), where `doc/interface.xml:1355` says that the library works
  on the IEEE 1284 values.
* A '#' in the middle of a word does not begin a comment (`conf.c:87`), where
  `doc/interface.xml:148` says that comments begin with one.
* A line that ends in a backslash, at the end of a file, takes the tokenizer behind it
  (`conf.c:101`), and `find_ports` may not return.
* A device ID whose low length byte is above 127 is read 256 bytes short where char is
  signed (`deviceid.c:80`), although `doc/interface.xml:468` promises as much of it as fits.
* With the I/O method the recorded mode is nibble at open (`default.c:105`,
  `ports.c:110`): a first negotiation to nibble mode reports success and does
  nothing. `TerminateFirst` avoids it.
* `set_timeout` writes its result's storage before it reads its argument
  (`access_ppdev.c:670`): given the pointer an earlier call returned, it sets
  nothing.
* An ECP write that gives up a stalled byte leaves nStrobe and nInit low with the phase at
  FWD_IDLE (`default.c:785-791`): the next write cannot tell which of its bytes the
  peripheral has. `CountedIsTaken` ends there.
* `get_fresh` writes the two bytes of the length field into a buffer of any length
  (`deviceid.c:73`); `IdIsWhole` speaks of two bytes or more.
* `negotiate` passes the error code of `which_mode` to PPNEGOT untested
  (`access_ppdev.c:497`).

## 6. Not modelled, and why

* `access_lpt.c`: the control flow of `access_io.c` over another operating system's
  calls.
* `ieee1284module.c`: converts Python arguments; no state but the struct of
  `PortLifecycle`.
* `solaris_io/iop.c`: a driver of its own, one port access per ioctl.
* The shadow of the control register bit by bit (`access_io.c:334`: it starts at zero
  and is never read from the hardware) and its inversions in port I/O, which are the same at every
  access: those models name lines, not bits, and begin behind the first control write.
  (`Ppdev` has the inversion, because there one access leaves it out.)
* The populate functions for systems other than Linux, IEEE 1284.3 daisy chains
  (refused by the code for a fresh ID), the interrupt and base address of a port
  (parsed and passed on), `delay.c`, `debug.c`, and `tests/test.c`.
