# TLA+ models of happy-gardenpi-app

happy-gardenpi-app is the firmware of a garden irrigation controller on a Raspberry
Pi Pico W: FreeRTOS on one core, preemptive and time-sliced, a handful of threads,
interrupt handlers, a timer and the callbacks of lwIP. This directory models its
behaviour in TLA+, checks it with TLC and proves the main results with TLAPS.
Paths are relative to `src/`.

## 1. The system

| Component | State it keeps | Operations | Talks to |
| --- | --- | --- | --- |
| `app_main` (`hhg-app/src/app-main.cpp`) | `fsm` (state, old state, error count, event bits), the shared `generic_timer`, the synchronisation timer, the date it works with | one thread, nine cases of a switch every 100 ms, `handle_error` | polls `pico_wifi`; calls `connect()` and `ntp_start()`; its bits are read by the display and MQTT |
| `pico_wifi` (`hhg-driver/platform/pico/pico-wifi.cpp`) | `fsm_state`, event bits, connection timeout, address; the `ntp` record | one thread, six cases; `connect()`, `is_connected()`, `ntp_start()`, two lwIP callbacks | cyw43 radio, DHCP, resolver, time server; written to by its callers |
| `pico_time` | the RTC | `set_timestamp`, `get_timestamp`, `get_date_time` with time zone and summer time | set by the NTP callback and by `$RTC 2`; read by display and main machine |
| `app_config`, `app_data` | the configuration and the schedules in RAM, each with a checksum | setters of settings, schedules and zones, `store`, `load`, `load_default`, `clear`, the look for a schedule that is due | `pico_fs_io`; setters called from the parser's thread, the look from the main machine's |
| `pico_fs_io` | one flash sector, a half for each of the two | `write` (read, erase, program), `read`, `clear` | the flash |
| `app_parser` and its command table | bytes received, the source of the last one, the user logged in, the session timeout | receive (interrupt, display, network), execute, login, logout, timer | all of the above, the display's lock |
| `app_display_handler`, `app_display_menu` and its pages | locked, timers, menu level and index, page state | display thread, button and encoder callbacks | parser, configuration, main state bits |
| `app_led` | status and current status | LED thread, five setters | set by `app_main` |
| `app_mqtt`, `pico_mqtt` | connection state machine, result of the last attempt | one thread; connection callback | polls `pico_wifi` and `app_main` |
| `pico_button` | the last edges, a queue of one event | interrupt `on_click`, thread `handle` | calls back the display |
| `pico_rotary_encoder` | the sample before | one thread, a sample per millisecond | calls back the display |
| `pico_sh1106` | the frame buffer; the panel's page and column | painting, `send_buffer`, `turn_on`, `turn_off` | I2C; painted and sent by the display's thread and by callbacks |
| `hardware`, `main` | which drivers exist, `*error` | the constructors, `hardware::init`, `app_main::init`, `fsm_start` | all of the above, once |
| UART, relays, GPIO, LED drivers | pins | interrupt of the UART; outputs | the parser; the valves |

What is hard in it: threads of equal priority that poll and overwrite each other's
variables without locks; callbacks of the network thread; timers that are decremented
towards an exact zero; retries that race late successes; event bits that outlive what
they stand for; answers that are lost; one flash sector that is rewritten as a whole; a
contact that bounces and a bus that fails; a start that may stop at any step.
What makes each part correct:

- `pico_wifi`: a report (CONNECTED, HAS_IP) is only made with what it says, goes away
  after the link has, and the timeout is never run below zero.
- `app_main`: READY only with a known date, and for ever; no error, bit or timer of a
  round leaks into the next; it always gets to READY if the network lets it; it goes on
  synchronising; the LED tells the truth in bounded time.
- the lwIP lock is given back on every path.
- storage: what was stored is what the next start loads, or the defaults, never a mix.
- parser: who is logged in, from where, and for how long; each answer goes to its command.
- display and LED: no indication is lost for good; timers never miss zero; the lock is shown
  in bounded time and leaves.
- menu: the index that entries, characters and numbers share is always one for who uses it;
  no typed password outlives its page; what is shown is what the next event acts on.
- MQTT: one attempt to connect, at the right time; CONNECTED only if it was accepted.
- schedules: a look never finds one half set, and what was asked for is what is read; what is
  counted as a zone has been set.
- clock: what it reads is what was set and the time since, but for what the months do to it.
- button and encoder: each click and turn once, however the contact bounces and whatever was missed.
- LCD: what is sent is shown, also after a transfer that failed; text is where it was asked for;
  the line of the keyboard shows the text that is entered.
- start: no failure leaves a valve open or a command without its part.

`PROJECT.json` lists every component with its status, and every hazard with its line.

## 2. Modules

| Module | Models | How |
| --- | --- | --- |
| `PicoWifi` | the Wi-Fi driver | One action per case of the thread's switch. Reading `fsm_state` (`Fetch`) and running the case are two steps, so that `connect()` may come between them. `ConnectBegin` is the assignment at the head of `connect()`, `JoinAccepted` the radio's acceptance. The radio and DHCP are external actions. |
| `PicoNtp` | `ntp_start`, `ntp_request`, `ntp_dns_found`, `ntp_recv` and the clock they set | One action per outcome. A name in the resolver's cache, a lookup, a refusal; answers accepted, rejected, repeated or lost; the early return that keeps the lock. |
| `AppMain` | `app_main::handler`, `handle_error`, composed with both | One action per case. The two cases that call into the network are split at the call (`TryWifiConnection`/`Joined`, `SinchTimestamp`/`ReadClock`), since the other threads run meanwhile. `Tick` lets 100 ms pass when both threads sleep or wait for the lock. `Progress` is what goes on by itself, `Fault` what goes wrong or is changed from outside. |
| `BootPhases` | what the main machine promises | Phases, a known date, READY announced; no timers, retries or threads. |
| `MCAppMain` | instance for TLC | Counts faults and ticks without a link. |
| `PicoFsIo` | the flash driver | `write()` in its steps: the copy in memory, the erasure, the configuration's pages, the data's pages; `clear()`; a power cut between any two. |
| `DurableStore` | what the flash driver promises | Each half holds what was last put there; an update announced may be lost to a power cut. |
| `AppStore` | `app_config`, `app_data`, the loading part of `app_main::init`, and the commands that set, store and clear, over `PicoFsIo` | One action per step of the start and per command. A checksum is what it was computed over, so an image loads when its checksum equals its value. `memory` says whether an allocation succeeds. |
| `ParserSession`, `MCParserSession` | `app_parser` with `send_cmd`, the log-in commands, the UART's interrupt and the session's timer | The bytes of a line are a head and an end. One action per step of the parser's thread between which the timer's thread or an interrupt can come; a log-in and a log-out are three each. `Announce` sets `source`, `WriteLine` puts the line in the stream. The instance says what is typed and what the menu sends. |
| `AppLed` | `app_led` | `Show` is the switch, `Settle` the rest of an iteration; `Ask` is the setters, which may come between the two. |
| `AppDisplay` | the thread of `app_display_handler`, the flags of the menu it uses, and the callbacks of the buttons, the parser and the timer | One action per access to something shared; a load and its store are two. |
| `DisplayMenu`, `MCDisplayMenu` | the menu and its pages: `app_display_menu`, `_passwd`, `_wifi`, `_irrigate_now`, `_keyboard` | `Gate` is the test before the mutex, then one action per event and page; a page that sends commands waits in `at` with the mutex. `exit()` is one action per assignment. |
| `AppMqtt` | `app_mqtt` and `pico_mqtt` over `PicoWifi` (which it extends) | One action per case of the thread; `connect()`'s outcomes; lwIP's callback. |
| `MCThreads` | `AppMqtt` and `AppDisplay` side by side | They share nothing: a behaviour is one of either. |
| `AppSchedules` | `set_schedule` member by member, `get_schedule` of a moment with `get_bit_day`, `get_schedule` of an id | The parser's thread sets; the main machine, of higher priority, looks between any two assignments and as a whole. |
| `AppZones` | `set_zone`, `get_zone` and the length of the table | One action per command; the id an int of any size, and the byte of it that is the index. |
| `PicoTime` | `pico_time` with the calendar and daylight saving time, over the RTC | `SetClock` is `$RTC 2` and the time server; time passes in hours. The RTC and `mktime` are external. |
| `PicoButton` | `pico_button` | The contact, the edges the GPIO keeps, `on_click`, the queue of one, `handle` in two steps. Interrupts may be late and the callback slow. |
| `PicoRotaryEncoder` | `pico_rotary_encoder` | The readings of a sample and the two reports are steps; the knob moves between any two. |
| `PicoSh1106` | the LCD's frame and its transfer, and the mutex of `app_display_handler` around them | One action per transfer, of which any may fail with some of its bytes taken. |
| `AppDisplayPaint` | `paint_str`, `paint_char`, `paint_header`, `set_str`, `set_char`, `set_pixel`, the keyboard's font, the sizes of the fonts | The columns a text reaches, with the widths of the integers. |
| `KeyboardLine` | `app_display_keyboard`'s text, flags and `paint()` | The callbacks, and a paint in two steps between which they may come; the row is a function of its cells. |
| `HardwareStart` | `main_thread_handler`, `hardware`'s constructor and `init`, `app_main::init`, the UART's first bytes | A step per object or `init`, in the code's order; those in `MayFail` end the start. |
| `MCParts` | instance for TLC of `AppStore`, `AppLed` and the nine above | They share nothing either. |
| `PicoWifiProofs`, `AppMainProofs`, `PicoFsIoProofs`, `AppStoreProofs`, `ParserSessionProofs`, `PartsProofs`, `DisplayMenuProofs`, `AppMqttProofs` | theorems | Section 5. |

Correspondence of state: variables have the names of the source's members;
`wifi_at`/`app_at` are the program counters, `wifi_sleep`/`app_sleep` the rest of a
sleep, `radio`, `lease`, `dns_cached`, `dns_pending`, `ntp_in_flight` the outside world.
Times are in ticks of 100 ms. `now_valid` stands for "now_in_millis is later than 2020",
`rtc_valid` for the same of the RTC. Operators whose comment begins with "Mutated" are
deliberate errors used to show that each property can fail; no specification uses them.

For the store, `flash`, `data_sector` and `writing` are the sector, `write()`'s copy of it
and where the call stands; `config`/`config_crc` and `data`/`data_crc` are the two
structures in memory; `asked` and `kept` are history (what `store()` was called with, and
what the last store of a half put there). There is one core and `write()` runs with
interrupts off, so no thread runs between its steps; `init` runs in the main thread at the
highest priority without blocking, and all commands, the display's too, run in the
parser's thread: calls follow one another, and what comes in between is the power. A half
of which some pages are missing fails its checksum like an erased one, and both are
`NoImage`. The serial number and the description are sequences of what was appended;
everything else in the configuration is one value of `Settings`, the schedules one of
`Data`. Both structures fit half a sector with the two schedules of four zones of
`CMakeLists.txt`, so `write()`'s test of the size always passes; its other error, no memory
for the copy, is modelled. `flash_range_erase` is modelled by what the boot ROM does with half a
sector: it erases the sector that contains the offset. When the start fails after the
configuration is registered, its commands work on ("partial").

For the parser, `stream` and `ret` are the two stream buffers, `line` what the thread's
local buffer holds, `typed` a line of the UART of which only the head has come, `client` the
progress of `send_cmd`. Only commands that matter to the session are told apart: log-in,
log-out, what a logged user may do (with an answer, or, like `$CONF 11`, without one), what
anybody may do. Nothing calls `on_receive` for the network, so there are two sources; the
interface of the display is null, and a call through it is the state "crashed". `overlap`
is history: it says that a byte of the UART came in while a command of the display was
under way, or the other way round, or before the last line was answered; the code gives no
guarantee then, and the properties of the answers are stated for the rest. A command takes
less than the second that the timer and `send_cmd` wait.

For the display, times are in iterations of 5 ms. `read` is what the thread has loaded of a
timer and not yet stored. `generic_timer` is not volatile and has no atomic access: in the
default build (Release) its test and its count use one load, which is what `Count` does. The values that the thread tells
apart of the main machine's bits are `fsm`; READY is never taken back, which `AppMainProofs`
proves (`ReadyStays`). Pages and levels are in `DisplayMenu`; a page may keep its
callback waiting, so the callback is two steps.

For the menu, `menu_level` is `menu_level_store[0]` (nothing uses the other one), `typed` the
number of characters in each page's keyboard, `shown` what was sent to the display, `timed_out`
says that `display_turn_off_timer` is zero: it may become so at the end of any iteration. The
device is READY. The display's thread has the lowest priority and the steps between two waits
of the other threads are short, so it runs only when nobody holds or waits for the mutex, or
while a command is being answered (`Resting`). The texts' characters, and `add_char` and the
overflow flags, which only choose pixels, are left out. A log-out and its `on_logout` are one
step. `blind` is history: somebody has acted on what was not on the display yet, or while the
menu was being closed; the code promises little then, and the properties are about the rest.
`overtaken` is history too: a log-in came between the test of the lock and the end of an event.
A click that opens the menu does not paint it: if a paint is pending, `labels[-1]` is
painted; that is one of the cases of `blind`.

For MQTT, `returned` is `return_from_mqtt_connection`, `mqtt_client` lwIP's client; `attempts`
and `accepted` are history. The thread's second of sleep is a step of its own, and time is left
open. `server_known` is what `is_ntp_synchronized()` tests: that the name of the time server
was resolved, not that an answer came.

`MCParts` and `MCThreads` put parts side by side that share no variable and no code: `part` is
chosen in the initial state, only that part moves, and the state space is the sum of the parts',
not their product. A property of one part is checked over all of its behaviours.

For the schedules, a schedule has its members but for the description, and a request is the JSON
with its id and numbers of any size; `AsAssigned` is what the code makes of it. `setting` says which
schedule is being set by which request, and how many members are done. `schedules_set` is history:
what each place of the table was last asked to be, as it was asked, with the id and the minute that
were sent. `changed_live` has the schedules that were active while they were being set: nothing
protects those, and `DueIsWhole` is about the rest. `due` is what the last look found. The look is a whole because its thread has the higher
priority and does not block in it. Of the zones only which have been set matters; `beyond` says
that the memory behind the table was written, after which nothing is claimed, `gap` and `outside`
which kinds of ids have come. The schedule a zone is set in is taken to be one of the table: a
negative `id_schedule` is not refused either (`app-data.cpp:347`).

For the clock, `rtc` is what the RTC holds, with its month as the code gives it, `rtc_now` the time
it should be, in hours since the first of January 2024. The RTC refuses month 0 and ends a month by
the number of days of the month it takes it for.

For the button, `clean` is history: the click began out of rest, did not bounce and found
interrupt, queue and thread free. `told` is what the callback was told of it, `click_due` what it
should be told. Times are what the code computes from them, the ticks since, capped where they
decide nothing more. For the encoder, `undisturbed` says that no position was missed and no turn
and click fell in one sample, in which case each is told twice. For the LCD, `cleaned` says that
`paint_clean`, which takes no mutex, came during a send, `send_failed` that a transfer of it failed.
For the keyboard, `damaged` says that another screen was painted over the row or a character
entered before the one before it was painted: then the row keeps what was there.

For the start, `steps_done` says which objects exist, `valves` what the pins of the relays do,
`kept_lines` what came in on the UART and waits for the parser. The thread of the start has the
highest priority (6 of `configMAX_PRIORITIES` = 6 is clamped to the highest) and does not block, so
the parser runs when it has ended, whether it went well or not.

`AppMain` takes the LCD's failures in: the LCD keeps the address of `main`'s `error` for ever
(`pico-sh1106.cpp:58`) and writes an error there when a transfer fails, from the display's
thread; the next pass of the main machine takes it for one of its own. `Resumptions` are the ways
a split case goes on after that.

Abstractions. On the Pico no time function returns an error, so those branches are left
out. That the counted time itself crosses the year 2020 is ignored. EXECUTE_ZONE has no
entry in the code and is left out. What READY's look at the schedules finds goes into a local copy
and is discarded; the look is in `AppSchedules`. The case bodies are atomic but for the splits named above; the driver's
iteration takes no time of its own. `RtcAccepts` says whether the RTC takes the dates of
the current month (`set_timestamp` passes month numbers from 0).

## 3. Runs

Constants are scaled: a second is 1 or 2 ticks rather than 10, timeouts a few ticks
rather than 100 or 300, an hour one check. What matters is their order (the timeout of
the application longer, shorter or equal to the driver's, a second between them) and that
every timer expires and is inherited; both occur at these sizes.

| Run | Shows |
| --- | --- |
| `app_safety` | `RestartsClean` and the refinement of `BootPhases` (`ImplementsBootPhases`), with three faults anywhere, the LCD's included. Three are enough for a refusal at MaxError = 1, a retry and a change by the operator in one behaviour. `LinkLossReported` and `LedFollowsLink` bound the ticks from the loss of the link to its report (six iterations of the driver) and to the LED; `OfflineCap` counts beyond both, and the sleep after errors is as long as a connection attempt. A synchronisation comes every second check (`SyncPeriod` = 2), so that a loss can also be told to the LED by the check alone. |
| `app_live` | `ReadyEventually`, `SynchronisesForEver`, with two faults anywhere. |
| `app_blocked` (violation) | A device whose link is lost between CONNECTED and its first date is offline for ever, against `TODO.md:19`. |
| `parser_session` | Two sources, log-ins, log-outs, commands for logged users only, empty lines, a silent command, a session of two timer periods, a stream for one line and one answer: `SessionInv`, `AnswersMatch`, `NoNullInterface`, `LinesExecuted`, `SessionsEnd`, `SendReturns`. At these sizes streams fill up, a session ends at each step of a log-in and of a log-out, and every mix of the sources occurs. |
| `menu` | Two schedules, the second without zones, a font of two characters, a keyboard for one, eight bits of three values; buttons, encoder, closing, log-ins and log-outs at any moment: `IndexFits`, `NoLeftovers`, `ShownIsCurrent`, `SentIsChosen`, `OnlyOvertakenSends`. The index, the keyboard and the numbers reach both their ends and wrap. `BlindPages` = FALSE bounds the run (two to three minutes): once somebody has acted blind, and until the menu is in order again, no user logs in, and new events only come outside the pages and while the menu is not being closed. The proofs do not assume it. |
| `threads` | `AppMqtt` over `PicoWifi` with sleeps that overrun, callers that call `connect()` at any moment, a driver that does not start, and any broker: `WifiInv`, `OneAttempt`, `AcceptedIsReported`. `AppDisplay` with a second of two iterations, a blink of one, darkness after five, and callbacks between any two accesses: `LockIsShown`, `LightsUp`, `LockScreenLeaves`, `MenuIsPainted`. These bounds are tight: an iteration less and the run fails. |
| `parts` | The parts below, one per behaviour. |
| `ntp_lock` (violation) | After one failed allocation the lwIP lock is never given back, against the comment at `pico-wifi.cpp:262`. |
| `store_descr` (violation) | After `$CONF 2` or `$CONF 4` ("Set description", `app-parser-commands.cpp:113`) the flash holds a configuration that the next start refuses. |
| `store_clear` (violation) | `$DATA CLEAR` ("Clear all zone", `app-parser-commands.cpp:273`) erases the stored configuration as well. |
| `schedule_due` (violation) | A schedule for half past seven on Mondays is due at seven on a Thursday. Its minute is read from the id, against "Unable read minute" (`app-data.cpp:212`) and "values allowed 0 - 59" (`app-data.hpp:88`); its weekday goes by the day of the month, against the names of the bits (`app-data.hpp:98-113`, `app-data.cpp:582-595`). One request and one moment, so that the counterexample shows both. |
| `rtc_january` (violation) | A time of January given to "Set RTC" (`app-parser-commands.cpp:95`) is answered with OK and not taken. |

The parts of `parts`:

| Part | Properties | Bounds |
| --- | --- | --- |
| `AppStore` | the refinement of `DurableStore` (`FlashIsDurable`), `OnlyStoredLoads`, `BootLeavesSound` | Five commands, two values of the settings and of the data, strings of up to two pieces, any number of power cuts between any two steps of a write and of refused allocations. Five commands are enough to set, write, store, clear one half and store the other before a cut or a reboot. |
| `AppLed` | `LedInv`, `BlinkingTells`, `LastAskedIsShown` | Phases of one to three ticks, statuses asked for at any moment. |
| `AppSchedules` | `DueIsWhole` | Both schedules of the build; any time, some days, some months or both, two statuses and more, 65535 for what is not set, and the ids 2 and 256; moments that meet each kind of request and others. |
| `AppZones` | `CountedIsSet` | The four zones of the build, ids up to two beyond, -1, 255, and 256 and 260, which are 0 and 4 in eight bits. |
| `PicoTime` | `ClockReads` | Eleven times of 2024, before the ends of months of each length and before both changes of summer time, and 40 days from each. |
| `PicoButton` | `CleanClicksReported` | A debounce of two ticks, a long press of five, a thread up to two ticks late. Shorter and longer clicks than each occur. |
| `PicoRotaryEncoder` | `TurnsCounted` | None: the contacts are the state. |
| `PicoSh1106` | `SentIsShown` | Two pages, two columns; any transfer fails. One page has the header, one the content. |
| `AppDisplayPaint` | `TextIsAligned` | The LCD's 132 columns and both fonts, texts up to the widths the program paints. |
| `KeyboardLine` | `LineShowsText` | Two characters, a row of five, a text of six: the text passes the end of the row and fills the buffer. |
| `HardwareStart` | `ValvesShut`, `CommandsFindTheirParts` | None: every step, every failure. |

`CHECK_DEADLOCK FALSE` in the runs of `MCAppMain`: the device really stops when the
driver's thread is dead and the lwIP lock is lost, and the fault budget ends. In the run
of `MCParserSession` it really stops at the call through a null interface, in `threads` at the use
of an MQTT client there was no memory for. In `parts` the start ends, a fifth command is the last,
the clock runs for `MaxElapsed`, and a zone beyond the table ends what is modelled of the zones.
`DisplayMenu` is checked for deadlock.

Fairness. Both threads have priority HIGH under a preemptive scheduler with time slices,
so each is weakly fair, and so is time. Weak fairness of `RadioAnswers` says a join comes
to an answer; of `DnsFound` and `NtpRecv`, that what was asked and not lost is answered
while the link is up; of `DnsExpires`, that a cached name has a finite lifetime. Nothing
is assumed of failures; they are bounded in number. The liveness properties state what
they need besides: the driver's thread started, the lock was not lost, the configuration
is eventually there, and (`ReadyEventually`) the radio does not give the link up between
CONNECTED and the first date, which is what `app_blocked` shows to be necessary.
In `threads` the MQTT client's thread (HIGH) is weakly fair, and nothing is assumed of the driver's;
the display's thread is, although of the lowest priority, because the others sleep or wait most of
the time.
In `parser_session` the parser's, the timer's and the sender's threads are weakly fair and the
users owe nothing. The LED needs none: what the main loop asks for again (`app-main.cpp:318-328`,
once a second) is shown once two iterations of its thread have heard it (`LastAskedIsShown`).

## 4. What the models say about the code

- The first association after power-on is never reported as CONNECTED: the driver requires
  DISCONNECTED to have been set. The device always waits for the whole timeout, calls
  `connect()` a second time over the live link and connects then (`ReadyEventually` holds
  because of it, `ConnectedOnlyAfterReset`).
- What makes that second `connect()` safe is that WAIT_IP has spent the timeout, which
  sends the driver through DISCONNECTED (`TimeoutSpentWhileReported`).
- A name in the resolver's cache sends no time request; a lost answer is only asked for
  again when the name expires.
- `set_serial` and `set_descr` write the configuration with the checksum of before the
  change; unless a store follows, the next start replaces all of it by the defaults. The
  start itself is saved by the store that follows its `set_serial` (`BootLeavesSound`).
  Unstored settings that go to the flash with it are never loaded (`OnlyStoredLoads`),
  unless they are what was stored before.
- Clearing one half clears both. A store of one half puts the other back, so only a power
  cut between erasure and the last page loses it (`FlashIsDurable`).
- A start that finds no memory to load the configuration stores the defaults over it.
- The answer to a command, the lock of the display and the check of a log-in go by the
  source of the last byte received. If the UART and the display are used at the same time,
  an answer can go to the other one, all later answers to the display can be one late, a
  line can be dropped, also when a script like `scripts/data_test.minicom:4-14` sends lines
  without waiting for the answers, and the parser can call an interface that was never registered
  (`overlap` in `AnswersMatch`, `NoNullInterface`, `LinesExecuted`). These three properties say only
  that it takes such an overlap: they are no protection from it, and a late answer, of a command
  that takes longer than the second `send_cmd` waits, is not in the model.
- The display's change of the password (`$CONF 11`) answers nothing: `send_cmd` waits the
  whole second and reports KO.
- A log-in that is processed when the session before it ends succeeds and is logged out at
  once; sessions and locks stay timed nevertheless (`SessionInv`).
- A status asked of the LED once may be lost; the callers of the main loop ask again. READY
  after a dark phase shows the colour of before for a tick (`ColourTells`).
- `lock()` resets the display's timer to show the lock at once, but the thread can write it
  back: the lock then takes a second (`LockIsShown`).
- A log-out before READY leaves the lock on the display until the main machine's bits
  change; a click on the encoder opens the menu without painting it (`LockScreenLeaves`).
- An announced READY is never taken back, also when the link is lost.
- The password pages ask for the "Access pwd" when nobody is logged in, but the keyboard
  confirms a text with `exit::KO` (`app-display-keyboard.cpp:99`), which leaves the page: they
  log nobody in. With a user logged in from the UART the display is locked. So the pages only
  send anything, the Wi-Fi and password settings included, if a log-in overtakes a press
  (`OnlyOvertakenSends`, proved); `MenuCommands` of `ParserSession` occur in that race alone.
- After a Wi-Fi store the page goes on asking for the password rather than the SSID
  (`app-display-wifi.cpp:145`); after an irrigation the short press leaves the menu at "WiFi".
- The zone chosen for an irrigation is always the first (`app-display-irrigate-now.cpp:83-87`),
  and turning a number counter-clockwise jumps to the last one (`app-display-keyboard.cpp:162`).
- The schedule's number is cut to eight bits and the result of `get_data` is not tested; what
  was painted before keeps it in range (`IndexFits`).
- The clock cannot be set in January. In other months it loses or gains up to three days at the end
  of a month, because the RTC takes it for the month before: what was set on the 31st of July is the
  1st of August an hour later only because June has 30 days (`ClockReads`).
- A schedule is due by the day of the month where its bits name weekdays (`schedule_due`), and a
  day and a month together are compared as numbers with a day of the month and a month from 0.
- A schedule that is active while it is set can be found half set; one that is not active while it
  is set never is, because the status is assigned last (`DueIsWhole`). `DueIsWhole` leaves the
  minute out, which is never what was asked for.
- The minute of a schedule is the id in the JSON, whatever minute is asked for (`app-data.cpp:208`):
  schedule 0 is due at the full hour, schedule 1 a minute later (`schedule_due`). The repository's
  script asks for minute 0 of schedule 0 (`scripts/data_test.minicom:10`) and does not notice.
- An index beyond the table of zones is written (`app-data.cpp:357` joins its two tests by "and")
  while the table is full, against "Out of max zoning index" (line 359); with a gap the zone is
  stored and not counted, against "count number of zone configurated" (`app-data.hpp:151`).
- The ids of zones and schedules are cut to eight bits before they are tested (`app-data.cpp:256,
  355`), so that 256 sets number 0. The id of a zone is compared with the length as
  it came (line 363): 256 sets zone 0 of an empty table without counting it. `CountedIsSet`
  says what is left: what is counted has been set, and, as long as no id was outside of the
  table and none left a gap, what has been set is counted.
- A turn and a click in one sample of the encoder are each told twice, and a turn of which a position
  is missed not at all (`TurnsCounted`).
- A bounce of the button between a press and a release passes the debouncing, which compares
  presses with presses; a click without bounces is told once, whatever came before
  (`CleanClicksReported`).
- A frame of which a transfer failed is not sent again, but the next one is shown whole: the page
  is addressed anew for each row, and the column returns by itself (`SentIsShown`). The failure's
  error reaches the main machine, which counts it as one of its own and starts over.
- A character that is entered before the one before it was painted leaves a cell of the row as it
  was (`damaged` in `LineShowsText`).
- `init_gpio` turns all relays on, and `pico_relay::init` off again; nothing that may fail lies
  between (`ValvesShut`). After a start that failed the parser runs, and `$RTC` and `$AUTH` call
  through null pointers (`CommandsFindTheirParts`).
- The MQTT client makes one attempt for as long as the device runs (`OneAttempt`): a refusal
  is noticed and ignored, a call that fails at once is not even noticed, and a connection that
  is lost stays reported. `pico_mqtt::connect` does not take the lwIP lock.

## 5. Proofs

`PicoWifiProofs`: `TypeCorrect` and `ReportsCorrect` (`[]WifiInv`) for every timeout and
every lateness. `WifiInv` consists of four statements about the reports and of what makes
them inductive: a case runs with the state it was fetched for or with a WAIT_CONNECTION
put in its place (`StateMatchesCase`), and what has been recorded holds for the state and
for the case being run (`RecordedFor`). The statements about HAS_IP are not inductive
alone, because a case that is already running finishes after `connect()`.

`AppMainProofs`: every step of the composition is a step of the driver or leaves it alone
(`WifiComponent`), so every behaviour is one of the driver's (`UsesDriver`) and its reports
are proved for it (`DriverReports`). `TypeCorrect`, then `MachineCorrect` (`[]AppInv`):
`InsideCase` and `BitsOfPhase` say where the thread stands inside a split case and which
bits a phase can find, and carry the named invariants. From it `ServesWithClock`,
`ReadyStays` (`ReadyIsForEver`), `StartsOverClean` (`RestartsClean`) and `Refines` (the machine
implements `BootPhases`: every step maps to a step or a stutter). Assumptions are `PicoWifiAssumption` and
`AppMainAssumption`: timeouts are positive, the wait for a connection is at least a second.

`LinkLossNoticed` and `LedShowsLoss` are about the instance's counter of ticks without a link, so
`AppMainProofs` extends `MCAppMain`; nothing in them depends on `MaxFaults`. `Noticed` adds to the
ticks counted those that the driver still needs to its reset (`UntilCleared`, by its case and
its sleep), and says how many `connect()` calls, each of which overwrites the state before the
thread reads it, have put that reset off; `UntilConnect` is how far the caller is from its next
one. The attempt to prove it showed that a bound of five iterations, which a run without overruns
confirms, is wrong with one tick of overrun: two refused calls in succession each put the reset
off. There are never three: `handle_error` sleeps after each refusal but the one that ends a round
of errors (`app-main.cpp:623-641`), and the next refusal is then the first of the next round.
`ErrorSleepIsLong` says that this sleep is as long as two iterations; its 500 ms are, as long as
a sleep of 100 ms overruns by a tick at most. `LedLeft`
continues the count from the report to the LED, through a synchronisation that
was under way, for every period of the check.

`PicoFsIoProofs`: `SectorCorrect` (`[]FsInv`) and `KeepsHalves`: a write takes effect in
`DurableStore` when the sector is erased, since from then on its contents are those of the
copy. `FlashFollowsCopy` is what the mapping needs.

`AppStoreProofs`: every step of the application is a step of the flash driver
(`FsComponent`, `UsesFlash`), so what is proved of the driver holds in the device
(`HalvesKept`). `StoreCorrect` (`[]StoreInv`): images have the kind of their half and the
data's are covered by their checksum (`ImagesSound`), what a checksum covers was stored
(`ChecksumsAsked`), each step of the start finds what the ones before it established
(`BootEstablishes`), and what was stored is kept (`KeptHolds`); `Settled`, the sector as the
call in progress will leave it, carries the last two across the steps of a write. From it
`LoadsOnlyStored`, `KeepsStored`, `BootRepairs`, `DataSound`; `SectorSound` says of the device
what `SectorCorrect` says of the driver. `AppStoreAssumption` keeps `NoImage` and `NoCrc` apart
from images and values.

`ParserSessionProofs`: `TypeCorrect`, and `SessionCorrect` (`[]SessionInv`), whose three
statements become inductive with what the step of a log-in or log-out says about the timer
and the user. `ParserSessionAssumption` asks for streams of at least a line and for users
different from nobody. `OneLineAtATime` is what the properties of the answers rest on: unless
lines have overlapped (`overlap`), there is nobody (`Nobody`), a line of which only the head has
come (`Typing`), one line of the UART between its end and its answer (`UartLine`), or one command
of the display (`DisplayLine`), and in each case it says what both streams, the parser, the sender
and `source` hold. From it `DisplayAnswered` (`AnswersMatch`), `InterfaceRegistered`
(`NoNullInterface`) and `TypedLinesExecuted` (`LinesExecuted`), for streams of any size.

`PartsProofs`: `DisplayInv` relates the two timers while the display is dark, counting
what has been loaded and not yet stored (`Lighting`), and what is left of the timer to the
iterations a lock has waited (`Locking`); `Loads` says who may write between a load and its
store, `DarkWhenReady` that only the READY branch turns the display off. From it
`TypeCorrect`, `LightsUpCorrect`, `LockIsShownCorrect`, for all lengths of the timers with
a blink no longer than a second and darkness after more than a second and two iterations.

`DisplayMenuProofs`, for every font, keyboard, width of the selections and number of schedules
and zones: `TypeCorrect` (a text leaves room for its end, the index fits 16 bits),
`SendsOvertaken` (`OnlyOvertakenSends`: an event that waits was let in when the display was not
locked, so a user logged in by then has overtaken it, `OvertakenInv`) and `NothingLeftBehind`
(`NoLeftovers`: `LeftInv` adds to it what has been closed so far at each step of `exit()`, and
that only an event, which makes who acts blind, can undo that). `DisplayMenuAssumption` asks
for sizes that fit their types, and for 'a' in the font. `MenuCorrect` is the invariant under
`IndexAlwaysFits` (`IndexFits`), `IrrigationChosen` (`SentIsChosen`) and `DisplayCurrent`
(`ShownIsCurrent`). `IndexInv`: the limits are those of the page's step, whoever acts (`LimitsFollow`); unless
somebody has acted blind, the index is one of the level the menu is at (`IndexAtLevel`), each step
of the closing has undone what it should have by then (`ClosedEmpty`), and the schedule chosen is one
that there is, for some minutes when it is sent (`ChoiceExists`). `ShownInv` says that a page waiting for
an answer is to be painted again, and relates what was sent to the display to the page
(`Current`). Neither is inductive without `LeftInv`: a page that is opened finds its index where
the closing of the one before has left it.

`AppMqttProofs`: the client is used over the driver (`UsesWifi`), so its reports are true there
(`WifiReportsCorrect`); `MqttTypeCorrect`; `AttemptCorrect` (`OneAttempt`), from `MqttInv`, which
says what the machine's state tells about reports and attempts.

The inductive invariants `AppInv`, `StoreInv` and `FsInv`, and what no run names because a
refinement or a deeper property says more (types, `ReadyHasClock`, `ReadyIsForEver`, `StoredIsKept`,
`DataHalfSound`, `ErrorsBelongToPhase`, `SectorFollowsCopy`), are proved and are not among the
properties of the runs.

Also in `PartsProofs`, each for every value of the part's own constants:

- the LED: `LedIndInv` adds to `LedInv` what is waiting between two iterations once a status
  has been asked for (`HeardIsPending`, `HeardTwiceStays`) and, for the two statuses of one
  colour, what is left of a phase against what has been seen of it (`LoadingPhases`,
  `ReadyDark`). From it `LedShows`, `LedBlinks` and `LedListens`;
- the zones: `ZonesCorrect`, for every set of ids; `ZonesInv` says that up to the first id that is
  out of order or outside of the table what is set is what is counted. `ZoneIndexes` is what is
  known of the byte that an id is cut to;
- the schedules: `SchedulesCorrect` and `DueIsOfOneRequest`, for requests with any numbers.
  `SchedulesInv` says that only the schedule being set differs from what its last request assigns
  (`AsAssigned`, with the id for the minute), that its first members are those of the new request,
  and that it is not active unless it was; the last needs the status to be the last member
  assigned. `AssignedAsAsked` takes that back to what was asked, but for the minute;
- the LCD: `SentShows`. `Sh1106Inv` says of a send without a failure that the pages behind it
  show the frame and that the panel writes where the send stands; nothing is assumed of where
  an earlier send, with failures, has left the panel;
- the start: `StartCorrect`, `ValvesLeftShut`, `PartsFound`, for any set of steps that fail.
  `StartInv` follows the step; what it needs is the order of the steps (`StartOrder`): none that
  may fail lies between the one that turns the relays on and the one that turns them off, and a
  start that has come to its end has made the parts every command calls;
- the keyboard's row: `RowShowsText`, for every length of the row and of the text. `RowInv` says
  which cells are right (`RightCells`) by what the next paint will do: all of them, all but the
  last or the last two, or none because the row is painted anew;
- the button: `ClicksReported`, for every debounce and long press and however late the thread is.
  `CleanInv` follows one clean click through edge, interrupt, queue and thread; `RestedInv` says
  that no edge was taken more recently than the last one came, so the debouncing lets it pass;
- the encoder: `TurnsTold`. `Turning` relates the sample before and the one under way to the moves made
  so far (each at most one behind) and to what was reported, `PressAt` does so for the press;
- the columns of text: `TextWhereAsked`, for every LCD at least 105 columns wide (the header takes
  that) and texts whose width is a byte (`TextsFit`); that is what the program paints.
  A column left of the LCD is kept as a large `uint16_t`, and an offset added to it wraps it back
  (`WrapsInU16`): texts that begin outside are cut where they should be (`ColumnsReached`);
- the clock: `ClockKept`, for every set of times in a year, every time zone, and `SetEveryYear`
  (330 days at most from one set to the next; the server's answers come more often): then the month
  it was set in has not come back. `TimeInv` says which date of the RTC follows from the last one it
  took. The error is a telescoping sum: in a later month it is the length of the month before that
  one less the day that ended the first (`ReadsOff`), so three days at most. The recursion of the calendar
  (`MonthStart`) is shown to be a formula by going through its 24 months; `DstIsSummer`
  compares the search for the last Sunday with the weekday of the date itself. The calendar is
  that of 2024 and 2025.

Every invariant the runs check is stated by a theorem. Only model-checked: the liveness properties
(`ReadyEventually`, `SynchronisesForEver`, `SessionsEnd`, `SendReturns`, `AcceptedIsReported`,
`LockScreenLeaves`, `MenuIsPainted`), since TLAPS proves neither fairness nor ENABLED; the bounds
of `LockScreenLeaves` and `MenuIsPainted` therefore stay those of the run. The six violations
are TLC's counterexamples.

## 6. Not modelled

- The three commands of one confirmation of the Wi-Fi page with commands of the UART between them
  (`app-display-menu.cpp:298`): the composition of `DisplayMenu` and `ParserSession` is too large for
  TLC, and either's state does not carry what the other would need.
- The users table of `app_config` and the JSON of `get_config`: plain data without order or failure
  of its own. The parsing of arguments and `$LOG`.
- The heap: that an allocation may be refused is modelled, that `set_schedule` and `set_zone` never
  give their JSON back (`app-data.cpp:272`) is not.
- The shapes of glyphs, rectangles and bitmaps, `invert_orientation`, the LED's PWM, the overrun of
  the UART's own buffer: output without a state that the program reads.
- `pico_relay::set` and `get`, which nothing calls yet; `hhg_utils`, whose functions are pure.
- The STM32 and Linux ports: not part of the Pico build, and behind its interfaces (`stm32-time.hpp`
  does not override `time.hpp`, `stm32_fs_io` has no `clear`). Vendored code.
