# go-audio-capture in TLA+

This directory models the capture library of this repository in TLA+: its Linux
stream over the ALSA ioctls, its Windows stream over WASAPI, the identification of
devices, and the mixer controls. TLC checks the models on small instances; TLAPS
proves their safety for every value of their constants.
`PROJECT.json` maps every definition to the lines it models.

All paths below are relative to the root of the repository. To check:

    tlc -config MCPcmGuard.cfg MCPcmGuard.tla      # one run of the table below
    tlapm PcmGuardProofs.tla                       # one module of proofs

## 1. The system and its parts

A program opens a **Stream** on a capture device, calls Read in a loop from one
goroutine, and may call Close from any other. Linux speaks to `/dev/snd` with raw
ioctls; Windows speaks to WASAPI through COM; elsewhere everything is a stub.

| Part | Code | State | Operations | Hard behaviour | What makes it correct |
|---|---|---|---|---|---|
| PCM guard | `internal/alsa/pcm.go:212-253, 483-507` | `fd`, `closed`, `inflight`, a condition variable | acquire, release, every guarded ioctl, Close | Close from another goroutine while a reader is parked in the kernel; Close racing Close; a reused descriptor number | the descriptor is closed once, with nobody inside it; Close never sleeps for ever |
| Linux stream | `stream_linux.go:280-475`, `pcm.go:372-474` | `closed`, `xruns`, the shortfall window | Start, Read with its recovery loop, Close | overruns, suspends, stalls, unplugs and Close landing between any two ioctls of a recovery | errors say what happened; gaps are counted; Read and Close end |
| Shortfall check | `stream_linux.go:88-91, 367-399` | `winOn`, `winStart`, `winFrames` | StartWindow, account, judge | the reader may be descheduled between ReadI and the clock; integer roundings | a slow device is caught, a good one is not accused |
| Negotiation | `pcm.go:263-343, 569-718`, `hwparams.go` | the intervals of HW_PARAMS | Negotiate, refineGeometry, refineNear | drivers report open, loose or unattainable bounds | the nearest geometry the device has; no refusal of a device that has one |
| Geometry | `stream_linux.go:172-222`, `pcm.go:353-364, 528-548, 765-779` | period, count, boundary | defaults, floors, setSwParams | roundings; doubling in a fixed word | floors met and tight; a boundary the kernel takes |
| WASAPI client | `internal/wasapi/client.go`, `stream_windows.go` | COM references, event handles, `closed`, a WaitGroup, a mutex | Open, Negotiate, Start, Read, Close | a half-finished Negotiate; Close against a parked Read | nothing used after release, nothing leaked, Close ends Read |
| Windows endpoints | `devices_windows.go`, `internal/wasapi/enumerate.go`, `client.go:76-96` | none of its own: the references a call holds | Devices, Resolve, the way of Open to an endpoint | endpoints come and go, and any COM call fails, between two others | an endpoint that is there is listed and never called absent; every reference is released |
| WASAPI fill | `client.go:203-358` | `carryBuf`, `nextPos`, `havePos`, `posLive` | fill, once per packet | packets repeated, overlapped, dropped, flagged; a position that stands still; packets longer than the buffer; GetBuffer failing after the carry was handed out | every frame once, in order; every gap an xrun |
| Device identity | `deviceid_linux.go`, `devices_linux.go`, the open paths of `stream_linux.go`, `capabilities_linux.go`, `controls_linux.go` | none of its own: a call's `resolved` | Devices, Resolve, Open, OpenDevice, OpenControls, SupportedRates | card indices are reassigned by hotplug between search, open and verification; twins with one serial | a handle is on the unit that was named |
| Controls | `controls_linux.go`, `controls.go`, `internal/alsa/ctl.go` | `fd`, `closed`, `inflight` | List, Info, Get, Set, CaptureVolume, SetCaptureVolumePercent, Close | elements removed and replaced between ioctls; Close and unplug against error classification | written values suit the element; errors are true |
| Capability queries | `capabilities_linux.go`, `internal/alsa/rates.go` | none | SupportedRates, SupportedRatesVerified | a rate list that is a promise about later opens | the rates verified are the rates an open gets |
| TLV items | `internal/alsa/tlv.go`, `controls.go` | none | ParseDB, ValueDB | lengths that lie, nesting, ranges out of order, values at the ends of a word | a value reads as the item says, and a malformed item as none |
| gac-rec | `cmd/gac-rec` | a WAV file | record, and commands that print | sizes patched after the samples, in 32 bits; a failure or a kill at any write | a header true of the file; success only for a whole recording |

How they interact: `Open` (stream) resolves an id with *device identity*, opens a PCM,
verifies what it got, applies the *geometry* defaults and floors, and *negotiates*.
`Read` calls the *PCM guard* for each ioctl, recovers through it, and hands every
successful read to the *shortfall check*. `Stream.Close` swaps its own flag and then
closes the PCM. *Controls* have a guard of the same design around their own descriptor.
Each description of a control
reads its *TLV item*. On Windows, the stream opens an *endpoint* and calls one *client*, whose
Read calls *fill* for each packet. *gac-rec* is a caller of a Stream.
Shared state between goroutines is only the flags, counters and condition variables of
the guards, of the client and of the streams; the rest belongs to the one consumer.

## 2. The modules

Specifications:

| Module | Models | Built on |
|---|---|---|
| `PcmKernel` | the ALSA substream as the code's errno handling sees it: what each ioctl answers in each state, and what overrun, suspend and unplug do. External: modelled from `pcm.go`, `stream_linux.go` and the fake kernel of `lifecycle_test.go`. | |
| `FdLifetime` | *abstract*: users enter and leave a descriptor; it is closed once, with nobody inside. | |
| `PcmGuard` | acquire, release, guardedIoctl and Close. Any number of goroutines that issue ioctls (`Users`) and of Closes. | `PcmKernel`; implements `FdLifetime` |
| `CaptureContract` | *abstract*: what Start and Read may return. ErrClosed only after Close, ErrDeviceGone only after an unplug, and only ErrClosed from a call begun after Close. | |
| `CaptureStream` | the Linux Start, Read and Close. Each ioctl of Read is asked for, guarded, issued and answered in steps of its own, taken from `PcmGuard` with INSTANCE. | `PcmGuard`; implements `CaptureContract` |
| `Shortfall` | checkShortfall, a ring buffer, a device of some speed, and a clock that ticks between any two steps. | |
| `Negotiate` | PCM.Negotiate, one HW_REFINE per action, against a driver; and SupportedRatesVerified, which goes through the same steps for one rate after another on one descriptor before an Open does. | |
| `Geometry` | openResolved's defaults and floors, the grant, boundary's loop. | |
| `Opening` | an open from its Config to a prepared device, with or without a rate query before it. | `Geometry`, `Negotiate` |
| `WasapiFill` | Client.Read and fill. A frame is the number of frames before it, the carry and a Read are runs of frames. | |
| `WasapiClient` | Open and Negotiate, Start, Read and Close with the references and handles they hold; the stream above it. | `WasapiEndpoints`; implements `CaptureContract` |
| `WasapiEndpoints` | Devices, Resolve and the way of Open to an endpoint, one COM call per step. | |
| `DeviceIdentity` | one call at a time from an id or DeviceInfo to a handle, with units plugged and unplugged between any two steps. | |
| `ControlValue` | stepOK, nearestValid, interpolate: pure operators. | |
| `ControlTlv` | ParseDB and ValueDB; and a reference that says what an item means without parsing it. | |
| `ControlSession` | one goroutine's calls on a Controls handle, ioctl by ioctl, against Close, an unplug, and elements that come and go. | `ControlValue`, `ControlTlv`; implements `FdLifetime` |
| `Recorder` | record of gac-rec: the WAV header, the loop of Reads and writes, the patched sizes. | |

`PcmGuardProofs`, `CaptureStreamProofs`, `ShortfallProofs`, `OpeningProofs`, `DeviceIdentityProofs`,
`ControlSessionProofs` and `RecorderProofs` hold the proofs about the module they are named after and
what it is built on (`OpeningProofs` those about `Geometry` and `Negotiate`), `WasapiProofs` those
about `WasapiClient` and `WasapiFill`; each `MC` module holds the constants of TLC's runs. Modules also define *faulty* variants of some
definitions (a dropped guard, a missing reset, a swapped order), each just before the
definition it is a variant of. No specification uses them. They record the mistakes that
each property was seen to catch.

### How state and actions correspond to the code

* **PcmGuard.** `closed`, `inflight`, `fd` are the fields of PCM; `pc[u]` is `"out"`, inside
  the ioctl (`"held"`, `"parked"`), or `"back"` before `release`. `Acquire` and `Refuse`
  are `acquire`; `Claim`, `Drop`, `Drain`, `CloseFd` the steps of Close between which it
  holds no lock. A wait on the condition variable is the state `"waiting"`, left only when
  `Release` broadcasts.
* **CaptureStream.** `at` is the place in Read, `cause` the error in hand, `recoveries`,
  `stalls` and `attempt` its budgets. `ReadFailed`, `GiveUp` and `Recover` are the branches of
  the loop's error path; `FirstStep`, `RecoveryStep`, `ResumeFailed` the ioctls of
  `PCM.Recover`; `Terminal` and `StateError` are `terminalError` before and after its probe.
  The flag `sclosed` is the stream's, `closed` the PCM's: `Swap` and `Claim` are separate
  steps. `lost`, `winLost` and `dirty`, and `fails`,
  `timeouts` and `there` (what this Read met: recoverable failures, read timeouts among them, and a probe that
  found the device) are history variables for the properties. Here the
  shortfall check may answer as it likes; `Shortfall` models when it does.
* **Shortfall.** `elapsed` is `now - winStart`. `ReadI` returns any part of the ring; ticks that
  pass in `"counting"` are the reader descheduled between ReadI's return and `monoNow`.
* **Negotiate.** A *driver* is the set of (period size, count) pairs it accepts, whether it
  relates the two exactly, and whether it reports open bounds. `PinTarget`, `ProbeUp`,
  `ProbeDown`, `PinCandidate` are the refines of `refineNear`, run for the size and then the
  count; what each asks and makes of the answer is an operator of the device and the intervals (`Pins`,
  `Up`, `Down`, `Ordered`), about which the proofs speak. Every ioctl may also fail (`Fails`). A negotiation is Open's or, for one rate, a query's
  VerifyRate: `Returns` is what its end means to each. `endpoint` is the committed rate that the
  device keeps until HW_FREE.
* **Opening.** The geometry that `Geometry` completed is the request that `Negotiate` gets, the
  buffer that the device committed is the one `setSwParams` works on, and a query's requests are
  the defaults without the floors. Its properties speak of the Config and of the prepared device.
* **WasapiFill.** Its `FillInit`, `FillNext`, `FillSpec` stand beside the client's `Init`, `Next`, `Spec`, as
  `OpenSpec` does beside `Spec` of `Geometry`, so that one module can prove about both. fill runs under the client's mutex and is one action, an action per outcome of
  GetBuffer. `GetFails` is its failure: what fill had taken from the carry is gone, and `cursor` (a
  history variable, one past the newest frame that left the client) moves past it.
* **WasapiClient.** `fields` is what the Client's fields refer to and `live` what is really held:
  the two differ exactly when a field dangles. The phases of Open are Negotiate's steps, each
  of which may fail; a failure runs the same Close as `Stream.Close`, by the thread `Opener`.
* **WasapiEndpoints.** `place` is the COM call a function is at, `refs` what it holds, each with the
  endpoint it is of; `Deferred` is what its defers release. An endpoint stands for its id, and a
  friendly name is read or not without a difference. `stayed` and `missed` are history variables.
* **DeviceIdentity.** Ids are records of a form, a model and a value; spelling is abstracted.
  `Identify` reads one card's sysfs identity. The code reads one attribute after another; the model
  reads them in one step and lets the unit leave in that step, with what such a reading can come to
  (`Torn`): the kernel card id alone, or a model, serial and port of which each is the unit's own or
  that of one that took its port since. Of a unit that stays, everything or the port may be
  unreadable (`Reads`). Calls share nothing but a `DeviceInfo`, which the caller keeps for its next call or drops;
  `OpenNode`, `Attribute`, `Verify` are the open, the classification of EBUSY, and the
  verification after the open. `BadState` and `Probe` are the EBADFD of a negotiation or a query
  and the probe that classifies it. `moved` and `lost` (what could not be read of each unit that stayed) are
  history variables of a search.
* **ControlSession.** `at` names the ioctl in hand. Each one is acquired, answered and released,
  and a Close, an unplug or another program's change may come between. `Classify`, the probe and
  `Decide` are `classify`. An element has a shape (its range, or a number of item names, whether it
  is readable and writable, whether it has a TLV item) and one value, and is of a type that Get and Set support. Item names and the TLV item are read by
  ioctls of their own, each of which may fail.
* **ControlValue.** `interpolate` computes in float64. `Float` is the rounding of an integer, or of a
  numerator over a power of two, to `MaxExact` (2^53) and the powers of two beyond it, ties to even;
  `Product`, `Steps` and `Interpolate` are its operations, each rounded. A percentage is a share
  `p / Full`. A share of half a step exactly may come out on either side of `math.Round`, in the model
  as in the code: 29 % of 50 steps is 14.499999999999998 in float64 and rounds to 14, where the comment
  on `SetCaptureVolumePercent` (`controls_linux.go:416-417`) has "half away from zero", which is true of the
  product as computed. `PercentIsNearest` therefore allows either, and what three roundings add; 54 % of
  the range of the run is such a share.
* **ControlTlv.** An item is a sequence of words; parsing is a recursive function of the place in
  it. `Says`, `Cuts` and what is built on them are the reference: an item means something if it
  *can* be cut into pieces that mean something.
* **Recorder.** The file is a header, whole frames and perhaps a torn one; `field` the sizes in the
  header. A frame is one word, of which an s24 sample takes the lower three bytes.

## 3. What TLC checks

| Run | Instance | What it shows |
|---|---|---|
| `guard` | 2 goroutines (a reader with every ioctl, one that calls Start), 2 Closes | the guard implements `FdLifetime` (`FdLifetimeSpec`); no wake-up of the drain is lost (`NoLostWakeup`); every Close returns (`CloseReturns`) |
| `stream` | 1 reader, 1 Close, 2 recoveries, 1 stall restart, 1 RESUME retry | frames are never delivered across an uncounted gap, nor is a shortfall window kept across one (`GapsAreCounted`); a failure after Close is ErrClosed (`CloseWins`); a raw state error is always a suspend between two ioctls, EBUSY never (`StateErrorIsSuspend`); a StallError or ShortfallError means the device was there when probed and every recovery of the Read counted, and a StallError comes after exactly the failures its budgets allow (`StallIsExhausted`); `ContractSpec`; Close ends the call in progress (`CloseUnblocks`); budgets end every Read (`ReadReturns`) |
| `fill` | packets of 1-3 frames up to a horizon of 7 with gaps of up to 2, or a still position with packets of 3 up to a horizon of 30; buffers of 1, 2, 4; GetBuffer failing at any packet | every frame presented is delivered, dropped with an error that Read returned, carried, or a duplicate (`NothingHeldBack`); once the position moved, or if it never does, none is delivered twice, failures or not (`NoneTwice`); every jump is an xrun (`JumpsAreXruns`) |
| `client` | 2 endpoints, 1 consumer, 2 Closes, every failure of every COM call | an endpoint that was there throughout a call is listed and found (`EndpointsAreTold`); `UsesAreLive`, `NothingLeaks`, `ContractSpec`, `CloseReturns` |
| `shortfall` | 4 ticks and frames a second, a ring of 2, a window of 40 ticks, pauses of up to 8 ticks, devices at 100 % and 75 % | a device that keeps its rate is accused only after an overrun hidden by a pause (`OnlyHiddenOverruns`); one a quarter slow fails its first window (`SlowIsCaught`) |
| `opening` | all sets of 4 sizes x 2 counts against all requests to one past both; some such sets with every behaviour of 2 rates, queried before or not; 13 rates on both sides of every rounding; devices of one buffer on both sides of the cap of an 8-bit word | an exact driver grants its nearest geometry (`GrantedIsNearest`) and is not refused for it (`RefusedIsHopeless`); the rates a query verified are those an Open then has (`PredictsTheOpen`); the floors are met and tight (`FloorIsTight`); the boundary is the largest doubling (`BoundaryIsLargest`) |
| `recorder` | 3 formats, a buffer of 2 frames, up to 5 frames of 16 bytes against sizes of 6 bits, bytes of 2 values, words with either padding | sizes in the header are true of the file, or placeholders (`HeaderIsTrue`); a recording that ends well plays what was delivered (`SuccessIsWhole`) |
| `identity` | twins with one serial, a unit without one and a codec that is not USB, 2 card indices, 2 ports; readings that fail or that a unit leaves in the middle of | a live handle is on the unit that was named (`HandleIsNamed`), or listed (`SameUnit`), and a call that returned left no descriptor open; two units that stayed are told (`TwinsAreTold`); a stranger is not called in use (`InUseIsOurs`); a unit that stays is found by its stable id and by its card index (`PresentIsFound`) |
| `controls` | 2 names, an integer range of 25 steps that begins below zero, with a step that does not divide the 5-bit word, and an enumeration that may not be read, 54 % in floats of 9 bits, 2 list attempts, TLV items of words of 5 bits | `WrittenIsValid`, `PercentIsNearest`, `NeverChooses`, `PresentIsListed`, `ErrorsAreTrue`, dB information reads as the item says (`DBIsRight`), `FdLifetimeSpec`, `CallsReturn` |

Three more runs end in a violation: section 5.

The variables' types are a theorem of `PcmGuard`, `WasapiFill` and `Geometry`. In the other
modules `TypeOK` is the first conjunct of a property of the run: `GapsAreCounted`, `UsesAreLive`,
`HandleIsNamed`, `WrittenIsValid`, `HeaderIsTrue`, `OnlyHiddenOverruns` and `RefusedIsHopeless`, which are
proved as well.

### Bounds, and why they are enough

* *Budgets.* 2 recoveries, 1 stall restart and 1 RESUME retry stand for 8, 1 and 100
  (`stream_linux.go:32-35`, `pcm.go`). A Read behaves alike at each count below its limit, and
  both limits are reached, in each order. The theorems hold for all budgets.
* *One Close in `stream`, two in `guard` and `client`.* The second Close of a Stream returns at the
  flag; two Closes that reach the PCM are checked at the guard. The theorems of all three modules
  hold for any set of Closes.
* *Horizons of `fill`.* A packet of 3 into a buffer of 1 takes three Reads of carry; a horizon
  of 7 lets it be topped up, repeated and followed by a gap. The theorems have no horizon.
* *GetBuffer failures* are unlimited within the horizon.
* *Requests of `opening`.* The family that varies the driver keeps requests from 0 to one past the
  largest size and count, so that every side of `refineNear`'s search is taken; rates, roundings
  and the cap have families of their own, for they do not meet in the code either.
* *Recorder.* Frames of 16 bytes against 64 sizes overflow each field within five frames. A buffer of
  two frames is the least that a short Read leaves something in. Words are one, minus one and the
  least sample, padded with zeros or with the sign.
* *TLV items.* Words of five bits let a length wrap around within an item TLC can enumerate: items
  of every type over data of up to three words, ranges of one or two entries, containers of one or
  two children, one level of nesting below. The reference cuts an item into at most `MaxPieces` (3).
* *Names asked of Controls.* One of the two (`Asked`): the other is the same up to a renaming, and
  is there to be listed, removed, replaced and chosen from. The theorems hold for any finite
  set of names and any ranges within the word.
* *One caller in `controls`.* The methods may be called concurrently (`controls_linux.go:52`). They
  share the guard of `ctl.go` only, which is the one of `PcmGuard` without the DROP; that one is
  checked with two callers and proved for any number.
* *Units.* Every index and port changes hands, and an id can name none, one or two units. The
  theorems hold for any sets of units, cards and ports.
* *Floats.* 9 bits for 53. The theorem holds for any number from 3 bits on. The
  powers of two have no least one in the theorem's reading; where float64 has, a share that underflows is
  no step of the range either way.
* *Words.* 8 bits for 32 in `opening`, 5 for 64 in `controls`: the code's constants stand in the same ratios, and the
  proofs of `Geometry` hold for any word and any cap of at most half its range.
* *Shortfall.* `MaxPause` of 8 ticks is longer than the ring lasts, which is what matters. The
  clock stands still while an overrun waits to be seen, for nothing depends on the time then.

### Fairness, and why the code justifies it

* A goroutine inside a call runs on (weak fairness of its steps): Go's scheduler is
  preemptive. No goroutine has to begin a call or a Close.
* A parked READI_FRAMES need never be answered with frames. It wakes when its substream stops,
  as the kernel guarantees and `pcm.go` relies on for its DROP. Only `ReadReturns` assumes that
  each one is answered in the end (by frames, or the kernel's own timeout, which gives EIO),
  and states that as its hypothesis, `ReadsAnswered`.
* A card whose operations were shut down is disconnected in the end (`CaptureStream`, `PcmGuard`).
* `WasapiClient`: strong fairness for a Close at the mutex, which a Reader takes again and again:
  Go's mutex hands over to a waiter that starves. The device owes no signal.
* `ControlSession`: control ioctls do not park.

Deadlock is checked in `guard`, `stream`, `identity` and `controls`. The other systems
end: an Open is done, a recording has a result, a client stays closed, a horizon is reached.

## 4. What is proved

All proofs are in the eight proof modules and rest only on the assumptions of the specifications'
constants, and on the hypotheses a theorem names: `Understood` in `WasapiProofs`, `LagTolerated` and
`SlownessShows` in `ShortfallProofs`. Each specification has one inductive invariant, proved
step by step, and its theorems are drawn from that; TLC checked every invariant
on the module's run, or a smaller instance, before it was proved. The theorems that state a property of a run have its
name in `PROJECT.json`.

* **PcmGuard**, for a finite set of users and any set of Closes. The invariant `GuardInv` is
  needed because no property alone is inductive: that a descriptor is not closed under an ioctl
  follows from the count (`inflight` is the number of goroutines between acquire and release)
  together with the fact that after `closed` nobody is counted in, so that a Close past the drain
  faces an empty set for good; that no wake-up is lost follows from the count too, for a waiter saw it
  positive and the release that brings it to zero broadcasts. From it: `GuardTypes`,
  `InflightIsExact`, `FdOutlivesIoctls`, `WakeupsAreKept`, and `GuardImplementsLifetime`, the
  refinement of `FdLifetime`: each step of the guard is one of its steps or a stutter.
* **CaptureStream**, for every budget and any set of Closes. `StreamInv` says of each place of a
  call which ioctl it waits for and what the answer in hand means (`Meanings`, `States`: an answer is
  about a device that may have moved on since); that the
  substream stands still after a gap that is not yet counted (`Uncounted`); that a failure past the PCM's `closed` has the stream's
  flag to report it (`ClosedFirst`); and that the overrun count, the budgets and the failures that the Read
  really met follow each other to within the one in hand (`Budgeted`). From it: `GapsStayCounted`, `CloseStaysFirst`,
  `StateErrorsAreSuspends`, `StallsAreExhausted`; `StreamKeepsContract`, the refinement of
  `CaptureContract`; and `StreamUsesGuard`: through the PCM's variables the stream is a behaviour of
  `PcmGuard` with one user, so that the guard's theorems hold of it.
* **WasapiFill**, for drivers that are `Understood`: their position moves, or stands still under
  packets of one size, and with GetBuffer failing at will. `FillInv` relates the high-water mark, the
  carry and the frames returned, which skip what a failed Read had taken;
  before the position was seen to move the carry may lag behind what was returned, since that
  is when repetitions get through, and from then on it continues it exactly. From it:
  `FillTypes`, `NoFrameIsLost`, `NoFrameReturnsTwice`, `JumpsAreCounted`.
* **WasapiClient**, with `WasapiEndpoints` below it, for any endpoints and any set of Closes.
  `ClientInv` ties what the Client's fields refer to and what is really held to how far Negotiate
  came, to the single Close between the swap of `closed` and its end, and to the count of the
  WaitGroup: a counted Read keeps everything held, because a Close past the drain found the count at
  zero and no Read is counted in any more. Its part `EndpointInv` follows one search: each endpoint that stayed is
  ahead, in hand, listed, or one that could not be read. From it: `UsesStayLive`,
  `NothingIsLeaked`, `StreamImplementsContract`, `EndpointsStayTold`.
* **Shortfall**, for every rate, buffer, window, tolerance, pause, speed and lag. `ShortInv` is one account of
  the frames: what the ring holds, what ReadI returned and what the window counted are together at
  least what the device captured in the time that elapsed, up to its lag, as long as no overrun waits
  to be seen (`Carried`); and at most that and what the ring held when the window began (`Capped`).
  From the first, `OnlyHiddenAccuse`, if the tolerance of a window covers the lag (`LagTolerated`);
  from the second, `SlowStaysCaught`, if a quarter of a window exceeds the tolerance, the
  slack and the first ring (`SlownessShows`). `CodeTolerates` shows that both hypotheses hold of the
  code's 20 buffers and 10 %, at every rate and buffer, for a pointer that lags at most two frames less than the
  buffer. That `checkShortfall`'s split into seconds and a rest is the time scaled whole,
  rounded down, is the lemma `Expectations`.
* **Geometry**, for every rate, request, grant, cap and word. The invariant `IInv` says how the
  loop's variable stands to the buffer and the cap at each step. From it: `GeometryTypes`,
  `FloorIsMet`, `FloorStaysTight`, `ProbeIsTheOpen`,
  `BoundaryIsRight`. The arithmetic (ceilings, doublings, multiples) is in
  lemmas about numbers alone.
* **Opening**, with `Negotiate`, for every set of drivers, candidate rates and requests. `OpenIsGeometry`:
  every behaviour of an open is one of `Geometry`, so that what is proved of the arithmetic holds of the
  composition (`OpenedGeometry`). `OpeningInv` rests on one idea: what a negotiation will come to is
  determined by the device, the rate and the request before its first refine. `Chosen` is that
  outcome, in terms of the operators of `refineNear`; the part `Course` says at each phase that what is in `hw`
  and `cands` is on the way to it, `Truth` what each result means of the device, `Querying` that the rates a
  query has decided about are verified exactly if an open with the default request can have them, and
  `OpensWith` that an open of the defaults makes that request. `PredictsTheOpen` follows for all
  drivers, loose ones included (`QueryPredicts`). For exact drivers lemmas about the operators show that a
  probe's bound is a value the device has, that the pin of it holds, and that the nearer of the two
  candidates is the nearest of all: `GrantsTheNearest` and `RefusesTheHopeless`.
* **DeviceIdentity**, for any units, card indices and ports. Its assumption says that a USB unit has a
  model, and `Plug` that the kernel gives no two cards one index and no two other cards one card id.
  `IdentityInv` adds to that (`Registry`) what a call has settled at each place:
  the unit of a live handle is at the target's index, and keeps being so since an unplugged
  unit takes its handle with it (`Progress`, `Verification`); a `DeviceInfo` fits the units it was
  listed from (`Fitting`); a search has seen each unit that stayed, as far as it could be read, or will (`Listing`); and two such
  units with one id were told (`NoTwins`). From it: `HandlesAreNamed`, `UnitsStaySame`,
  `TwinsStayTold`, `InUseStaysOurs`, `PresentStaysFound`.
* **ControlSession**, for a finite set of element names, any shapes whose ranges are within the word,
  and percentages from 0 to 100 (NaN and the others are refused before any ioctl, `controls_linux.go:425`).
  `SessionInv` says which element is in hand at each place (`Placed`, `HeldOne`); that a
  description is true of an element that was not replaced since it was made, and that a scan has
  each element that stayed behind it or still ahead (`Current`); that what is about to be written was checked against that description,
  and is the nearest value if it was a percentage (`Writing`); and how flags, count and errno stand to
  each other (`Guarded`, `Faulted`). That the nearest acceptable value exists and is the lower of two
  are lemmas about `Nearest`, for any range and step. `InterpolateIsNear` adds up the errors of the three rounded
  operations, for ranges whose ends are at most half of `MaxExact` (`Represented`): nothing is claimed of the
  nearness of a percentage in a range beyond 2^52, whose ends float64 rounds already. From it: `WritesStayValid`,
  `PercentStaysNearest`, `VolumesStayAlone`, `PresentStaysListed`, `ErrorsStayTrue`, and
  `SessionKeepsLifetime`, the refinement of `FdLifetime`.
* **Recorder**, for any byte of an even number of values, buffer, frame size and width of the size
  fields. `RecordInv` says at each place of `record` how much of what was delivered the body holds
  and what of it is in the buffer, aligned or not (`Recorded`), and which sizes are patched
  (`Accounted`). That a sample aligned into its word plays as it did is a lemma about remainders.
  From it: `HeaderStaysTrue`, `SuccessStaysWhole`.

Only model-checked:

* every liveness property (`CloseReturns`, `CloseUnblocks`, `ReadReturns`, `CallsReturn`), since
  TLAPS does not do ENABLED, on which fairness rests;
* `DBIsRight`: `ParseDB` is a recursive function of the place in the item, and what it computes for every
  item takes induction over data, which the installed provers do not do. The proofs about
  `ControlSession` treat its result as any value.

## 5. Where the code and its documents differ

* **A suspend inside a recovery** (`stream_suspend`). `README.md:260` of the repository says a
  suspend shows as "none: recovered and counted". `PCM.restart` (`pcm.go:449-454`) issues
  PREPARE and then START; a suspend between the two fails START with EBADFD, the probe finds the
  device there, and Read returns the raw error.
* **A flag on an overlap** (`fill_flag`). `stream_windows.go:132` says a DATA_DISCONTINUITY is
  counted as an xrun. On a packet that is skipped whole, fill returns it with no frames, and
  Client.Read (`client.go:235-240`) waits for the next packet without it.
* **A paused reader** (`shortfall_pause`). `README.md:263` describes ShortfallError as "Device
  delivers fewer frames than its rate, with no overrun". The clock is read after ReadI
  returned; a reader held up between the two for longer than the ring lasts has its window judged
  before the overrun is seen. `OnlyHiddenOverruns` shows this to be the only way.

## 6. What is not modelled

* The ABI layouts and request numbers, the conversion of formats and strings, the tables of error
  codes, the COM call wrappers: pure functions or constants without steps, which the layout and
  unit tests reach. `capture.go`, `errors.go` and the platform stubs are types and constants.
* The spelling of ids (`canonicalUSBID` and friends) and of endpoint names.
* A USB unit whose `subsystem` link or whose vendor and product cannot be read while it stays: the
  code takes it for a card that is not USB, and so would the model if it were described as one. The two
  halves of a model are read together.
* The percentages that are refused before any ioctl, and the element types that Get and Set refuse after
  a description (`controls_linux.go:305-307`).
* Elements that another program replaces by one of another range between the description and the write:
  the model has them, but the code promises nothing of what is then written, and `WrittenIsValid` is about
  the others.
* Elements with several values: each value is set as the one that is modelled. 64-bit integers and
  bytes: the range and the step are what the properties tell apart.
* The commands of `gac-rec` that list devices, rates and controls: they print what the library
  returns. The bytes of the WAV header other than its sizes. A recording whose sizes exceed 32 bits
  ends with `nil` and truncated sizes (`main.go` converts to uint32); no document of the
  repository says otherwise, and `HeaderIsTrue` states what the header then holds.
* Two consumers of one Stream: the library documents one. Misuse of that kind is out of scope.

## 7. Plan

Done, in this order: the guard and its proof, the Linux stream, fill and its proof, the client,
shortfall, negotiation with the rate query, geometry and its proof, identity, controls; then fill
with failures (model and proof), the composition of an open, the recorder, TLV items and item names,
Windows endpoints; then the proofs of the client, identity, the recorder, the Linux stream and the
controls, and of the tightness of the floors; then those of the whole of an open and of the
shortfall check. Every safety property of a run is proved but `DBIsRight`.

Next, a model: the composition of `CaptureStream` with the arithmetic of `Shortfall`, over an abstract
"slow device is told" specification. Its state space is the product of two runs that are large
already, so that the clock has to be abstracted first; the accounts `Carried` and `Capped` are what
the abstraction would have to keep.
