------------------------------ MODULE GpioMenu ------------------------------
(***************************************************************************)
(* The menu that reads and sets the processor's port registers for the     *)
(* host (navputter_gpio_menu_class): a command letter, for most commands a *)
(* port letter, then HexDigits hexadecimal digits for each parameter.  One *)
(* life of the menu object; Console says when it is made and freed.        *)
(*                                                                         *)
(* What is written back to the host and the registers of the converter are *)
(* left out: i, I and b, which write back a pin register, and a and A are  *)
(* parsed and change nothing here.                                         *)
(***************************************************************************)
EXTENDS Octet, Sequences, FiniteSets

CONSTANTS
    Hex,        \* the digits that are typed -> their values
    Base,       \* the base they count in, 16
    Ports,      \* the letters of the ports there are (GPIO_PORTS)
    Divergent   \* the commands that the help text is not checked for

HexDigits == 2                                 \* HEX_WORD_READ_SIZE
ParamsMax == 2                              \* PARAMS_MAX
PortLetters == {"a", "b", "c", "d"}
AnalogCommands == {"a", "A"}
Commands == {"d", "S", "C", "i", "I", "b", "o", "^", "&", "|", "s", "c"}
                \union AnalogCommands
NoCommand == "none"

ASSUME GpioAssumption ==
    /\ Base \in Nat \ {0, 1}
    /\ Hex \in [DOMAIN Hex -> 0..Base - 1]
    /\ Ports \subseteq PortLetters
    /\ Divergent \subseteq Commands

ParamCount(c) == CASE c = "i" -> 0 [] c = "A" -> 2 [] OTHER -> 1

VARIABLES
    gpio,       \* m_state
    cmd,        \* m_cmd
    letter,     \* m_port
    digits,     \* m_value up to m_pos
    params,     \* m_params
    count,      \* m_count
    out,        \* the PORT registers
    ddr,        \* the DDR registers
    typed       \* history: what was typed and taken since the prompt

parse == <<cmd, letter, digits, params, count>>
registers == <<out, ddr>>
gpioVars == <<gpio, parse, registers, typed>>

Values == 0..Base * Base - 1            \* what HexDigits digits can say
GpioStates == {"read_command", "read_port", "read_param", "convert_value", "call_func"}
GpioReading == gpio \in {"read_command", "read_port", "read_param"}

GpioTypeOK ==
    /\ gpio \in GpioStates
    /\ cmd \in Commands \union {NoCommand}
    /\ letter \in PortLetters \union {NoCommand}
    /\ digits \in Seq(DOMAIN Hex) /\ Len(digits) <= HexDigits
    /\ params \in [0..ParamsMax - 1 -> Values]
    /\ count \in 0..ParamsMax
    /\ {out, ddr} \subseteq [Ports -> Octets]

(* No object yet; the registers are not followed while there is none.      *)
GpioInit ==
    /\ gpio = "read_command"
    /\ cmd = NoCommand /\ letter = NoCommand
    /\ digits = <<>> /\ count = 0
    /\ params = [i \in 0..ParamsMax - 1 |-> 0]
    /\ out = [p \in Ports |-> {}] /\ ddr = [p \in Ports |-> {}]
    /\ typed = <<>>

(* new and begin(): the object's bytes are zero.  read_command() only sets *)
(* the state, but what the command before it left is overwritten before it *)
(* is read and is dropped at once.                                         *)
GpioFresh ==
    /\ gpio' = "read_command"
    /\ cmd' = NoCommand /\ letter' = NoCommand
    /\ digits' = <<>> /\ count' = 0
    /\ params' = [i \in 0..ParamsMax - 1 |-> 0]
    /\ typed' = <<>>

(* The registers are what other parts of the firmware have left in them.   *)
GpioBegin == /\ GpioFresh
             /\ out' \in [Ports -> Octets] /\ ddr' \in [Ports -> Octets]

(* free().                                                                 *)
GpioEnd == /\ GpioFresh
           /\ out' = [p \in Ports |-> {}] /\ ddr' = [p \in Ports |-> {}]

----------------------------------------------------------------------------
(* One poll() in each state; c is the character read.                      *)

(* Mutant: m_pos keeps counting, so a second parameter starts at its end.  *)
ReadParamAgain == gpio' = "read_param" /\ UNCHANGED digits

(* read_param(): the next parameter starts with no digits.                *)
ReadParamNext == digits' = <<>> /\ gpio' = "read_param"

ReadCommand(c) ==
    /\ gpio = "read_command" /\ c \in Commands
    /\ cmd' = c /\ count' = ParamCount(c) /\ digits' = <<>>
    /\ gpio' = IF c \in AnalogCommands THEN "read_param" ELSE "read_port"
    /\ typed' = <<c>>
    /\ UNCHANGED <<letter, params, registers>>

ReadPort(c) ==
    /\ gpio = "read_port" /\ c \in PortLetters
    /\ letter' = c
    /\ IF count > 0 THEN ReadParamNext ELSE gpio' = "call_func" /\ UNCHANGED digits
    /\ typed' = Append(typed, c)
    /\ UNCHANGED <<cmd, params, count, registers>>

ReadParam(c) ==
    /\ gpio = "read_param" /\ c \in DOMAIN Hex
    /\ digits' = Append(digits, c)
    /\ gpio' = IF Len(digits') = HexDigits THEN "convert_value" ELSE "read_param"
    /\ typed' = Append(typed, c)
    /\ UNCHANGED <<cmd, letter, params, count, registers>>

(* A command that is none, or a digit that is none: an error is written.   *)
ReadError(c) ==
    /\ \/ gpio = "read_command" /\ c \notin Commands
       \/ gpio = "read_param" /\ c \notin DOMAIN Hex
    /\ GpioFresh
    /\ UNCHANGED registers

(* A port letter that is none is passed over.                              *)
PassOver(c) ==
    /\ gpio = "read_port" /\ c \notin PortLetters
    /\ UNCHANGED gpioVars

(* Mutant: the digits count in reverse.                                    *)
ValueReversed(d) == Base * Hex[d[2]] + Hex[d[1]]

(* atoxi: the number that two digits stand for.                            *)
Value(d) == Base * Hex[d[1]] + Hex[d[2]]

(* The last parameter comes to index 0.                                    *)
ConvertValue ==
    /\ gpio = "convert_value"
    /\ count' = count - 1
    /\ params' = [params EXCEPT ![count - 1] = Value(digits)]
    /\ IF count' = 0 THEN gpio' = "call_func" /\ UNCHANGED digits ELSE ReadParamNext
    /\ UNCHANGED <<cmd, letter, registers, typed>>

(* What the function of command c makes of register r.                     *)
PortFunc(c, r) ==
    CASE c = "o" -> Bits(params[0])
      [] c = "^" -> IF 0 \in r THEN r \ {0} ELSE r \union {0}
      [] c = "&" -> r \intersect Bits(params[0])
      [] c = "|" -> r \union Bits(params[0])
      [] c = "s" -> Bit(params[0])
      [] c = "c" -> r \ Bit(params[0])
      [] OTHER -> r

DdrFunc(c, r) ==
    CASE c = "d" -> Bits(params[0])
      [] c = "S" -> r \union Bit(params[0])
      [] c = "C" -> r \ Bit(params[0])
      [] OTHER -> r

(* A letter without a port changes nothing.                                *)
CallFunc ==
    /\ gpio = "call_func"
    /\ out' = [p \in Ports |-> IF p = letter THEN PortFunc(cmd, out[p]) ELSE out[p]]
    /\ ddr' = [p \in Ports |-> IF p = letter THEN DdrFunc(cmd, ddr[p]) ELSE ddr[p]]
    /\ GpioFresh

GpioRead(c) == ReadCommand(c) \/ ReadPort(c) \/ ReadParam(c) \/ ReadError(c) \/ PassOver(c)
GpioStep == ConvertValue \/ CallFunc

----------------------------------------------------------------------------
(* What the help text of GPIO_MENU says command c with value v makes of a  *)
(* port, and what it and the functions' names, gpio_set_ddr_bit and        *)
(* gpio_clear_ddr_bit, say of its direction register.                      *)
HelpPort(c, v, r) ==
    CASE c = "o" -> Bits(v)
      [] c = "^" -> (r \ Bits(v)) \union (Bits(v) \ r)
      [] c = "&" -> r \intersect Bits(v)
      [] c = "|" -> r \union Bits(v)
      [] c = "s" -> r \union Bit(v)
      [] c = "c" -> r \ Bit(v)
      [] OTHER -> r

HelpDdr(c, v, r) ==
    CASE c = "d" -> Bits(v)
      [] c = "S" -> r \union Bit(v)
      [] c = "C" -> r \ Bit(v)
      [] OTHER -> r

TypedValue == IF Len(typed) < 4 THEN 0 ELSE Base * Hex[typed[3]] + Hex[typed[4]]

(* A command does to the port that was typed, with the value that was      *)
(* typed, what the help text says, and nothing to the other ports (poll,   *)
(* gpio_out, gpio_and, gpio_or, gpio_clear_bit, gpio_ddr and the others).  *)
CommandsDoWhatHelpSays ==
    [][gpio = "call_func" /\ typed[1] \notin Divergent \union AnalogCommands =>
         \A p \in Ports :
             /\ out'[p] = IF p = typed[2] THEN HelpPort(typed[1], TypedValue, out[p])
                                          ELSE out[p]
             /\ ddr'[p] = IF p = typed[2] THEN HelpDdr(typed[1], TypedValue, ddr[p])
                                          ELSE ddr[p]]_gpioVars
=============================================================================
