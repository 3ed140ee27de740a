---------------------------- MODULE HardwareStart ----------------------------
(***************************************************************************)
(* The start of the program: main_thread_handler (src/main.cpp:36-94),     *)
(* hardware::init (hhg-driver/platform/pico/hardware.cpp) with init_gpio   *)
(* and the drivers' init, and app_main::init (hhg-app/src/app-main.cpp).   *)
(*                                                                         *)
(* The thread of the start has the highest priority and does not block:    *)
(* the threads it creates run when it has ended, well or not, and what     *)
(* comes before is taken by interrupts.  The relays are active low.        *)
(***************************************************************************)
EXTENDS Naturals, Sequences

VARIABLES
    start_step,     \* how many of StartSteps are done
    start_end,      \* "no", or how the thread of the start has ended
    steps_done,     \* the steps done
    valves,         \* the pins of the relays: inputs, or driven to a level
    start_led,      \* what the LED shows
    start_error     \* *error: an error that was reported but did not stop the start

VARIABLES
    kept_lines,     \* what came in on the UART and was kept for the parser
    start_crashed   \* a command has called through a null pointer

startVars == <<start_step, start_end, steps_done, valves, start_led, start_error>>
hardwareVars == <<startVars, kept_lines, start_crashed>>

-----------------------------------------------------------------------------
(* The steps, in their order. *)

\* The constructors of hardware and app_main.
Objects == <<"hardware", "app_main">>

\* hardware::init: os_config_init, whose step is init_gpio, and the drivers.
DriverSteps == <<"gpio", "rgb_led", "time", "uart", "fs_io", "i2c", "relay", "lcd",
                 "rotary_encoder", "button", "wifi">>

\* app_main::init.
AppSteps == <<"app_led", "app_parser", "set_app_parser", "set_on_receive", "app_config",
              "set_app_config", "serial", "app_data", "set_app_data", "display_handler",
              "set_display_handler", "app_mqtt", "set_time">>

\* Mutated: the relays come after what may fail.
RelayLast == Objects \o SelectSeq(DriverSteps, LAMBDA s : s # "relay")
                \o <<"relay">> \o AppSteps \o <<"fsm_start">>

\* Mutated: the clock of the commands is not set.
NoSetTime == Objects \o DriverSteps \o SelectSeq(AppSteps, LAMBDA s : s # "set_time")
                \o <<"fsm_start">>

StartSteps == Objects \o DriverSteps \o AppSteps \o <<"fsm_start">>

(* The steps that may fail, for want of memory: those that construct the     *)
(* drivers, that create a thread, and that write to the flash.  The          *)
(* encoder's init does not look at what became of its thread, the LCD's       *)
(* reports an error and answers OK.                                          *)
MayFail == {"hardware", "button", "wifi", "app_led", "app_parser", "app_config", "serial",
            "app_data", "app_mqtt", "fsm_start"}

\* app_main::init shows its failures, once it has its LED.
ShownFailures == {"app_parser", "app_config", "serial", "app_data", "app_mqtt"}

-----------------------------------------------------------------------------
StartInit ==
    /\ start_step = 0 /\ start_end = "no" /\ steps_done = {}
    /\ valves = "inputs"
    /\ start_led = "off"
    /\ start_error = FALSE
    /\ kept_lines = {} /\ start_crashed = FALSE

Current == StartSteps[start_step + 1]

\* gpio_init clears the output, then the pin is made an output; relay::init sets it.
ValvesAfter(step) ==
    CASE step = "gpio" -> "on"
      [] step = "relay" -> "off"
      [] OTHER -> valves

LedAfter(step) ==
    CASE step = "rgb_led" -> "orange"
      [] step = "app_led" -> "loading"
      [] OTHER -> start_led

(* A failed transfer leaves an error behind; app_main deletes it if the      *)
(* configuration or the data then have to be replaced by the default.        *)
ErrorAfter(step) ==
    CASE step = "lcd" -> BOOLEAN
      [] step \in {"app_config", "app_data"} -> {start_error, FALSE}
      [] OTHER -> {start_error}

StartStep ==
    /\ start_end = "no"
    /\ start_step' = start_step + 1
    /\ start_end' = IF start_step' = Len(StartSteps) THEN "running" ELSE "no"
    /\ steps_done' = steps_done \cup {Current}
    /\ valves' = ValvesAfter(Current)
    /\ start_led' = LedAfter(Current)
    /\ start_error' \in ErrorAfter(Current)
    /\ UNCHANGED <<kept_lines, start_crashed>>

StartAborts ==
    /\ start_end = "no" /\ Current \in MayFail
    /\ start_end' = "failed"
    /\ start_led' = IF Current \in ShownFailures THEN "error" ELSE start_led
    /\ UNCHANGED <<start_step, steps_done, valves, start_error, kept_lines, start_crashed>>

-----------------------------------------------------------------------------
(* The UART, whose interrupt is enabled by its init, and the parser.         *)

\* What a command calls through; the others go through the parser's table.
Needs == [RTC  |-> {"set_time"},
          AUTH |-> {"set_app_config", "set_display_handler"},
          VER  |-> {}]

\* A line; without a listener it is dropped.
UartLine ==
    /\ "uart" \in steps_done
    /\ "set_on_receive" \in steps_done
    /\ \E c \in DOMAIN Needs : kept_lines' = kept_lines \cup {c}
    /\ UNCHANGED <<startVars, start_crashed>>

ParserExecutes ==
    /\ start_end # "no" /\ "app_parser" \in steps_done
    /\ ~start_crashed
    /\ \E c \in kept_lines :
           /\ kept_lines' = kept_lines \ {c}
           /\ start_crashed' = ~(Needs[c] \subseteq steps_done)
    /\ UNCHANGED startVars

StartNext == StartStep \/ StartAborts \/ UartLine \/ ParserExecutes

StartSpec == StartInit /\ [][StartNext]_hardwareVars

-----------------------------------------------------------------------------
(* Properties. *)

(* However the start ends, it leaves no valve open, although init_gpio turns *)
(* all of the relays on (pico-gpio.cpp:77-88, pico-relay.cpp:33-42,          *)
(* hardware.cpp:150-293, main.cpp:41-93).                                    *)
ValvesShut == start_end # "no" => valves # "on"

(* After a start that went well no command, not even one that came in before *)
(* the start had ended, calls through a pointer nobody has set.  After one   *)
(* that failed the parser goes on with what there is (app-main.cpp:423-556,  *)
(* app-parser-commands.cpp:53-58, 312-510).                                  *)
CommandsFindTheirParts == start_crashed => start_end = "failed"
=============================================================================
