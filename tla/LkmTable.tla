------------------------------ MODULE LkmTable ------------------------------
(***************************************************************************)
(* The init and exit functions of the kernel modules of the repository, as *)
(* LkmLifecycle runs them.  A step                                         *)
(*   takes a resource, gives one back, checks something or uses resources; *)
(*   never fails, or fails and is caught, which releases the resources of  *)
(*   undo in their order, the statements from its error label on, or fails *)
(*   and is missed, since the kernel returns an error pointer and the      *)
(*   module looks for a null pointer: its label is then never reached;     *)
(*   fails if the resources given to it are not there;                     *)
(*   then is 0 when the function returns an error after undo, or the step  *)
(*   its caller goes on with because retval is still 0.                    *)
(* The other fields: exit, what the exit function releases, in its order;  *)
(* needs, pairs of a resource and one it relies on; ends, what ends by     *)
(* itself; mayBeGone, what may be released without being there; fileNeeds, *)
(* what the file operations use; owner, whether they name THIS_MODULE;     *)
(* probe, whether init and exit are probe and remove.                      *)
(***************************************************************************)
EXTENDS Naturals, Sequences

Do(op, what) == [op |-> op, what |-> what, undo |-> <<>>, fails |-> "never",
                 given |-> {}, then |-> 0]

Start(r)       == Do("take", r)
Give(r)        == Do("give", r)
Use(rs)        == Do("use", rs)
Take(r, undo)  == [Do("take", r) EXCEPT !.undo = undo, !.fails = "caught"]
Check(undo)    == [Do("check", {}) EXCEPT !.undo = undo, !.fails = "caught"]
Silent(s, k)   == [s EXCEPT !.then = k]

(* The function returns an error pointer when it fails.                    *)
TakeIfNotNull(r) == [Do("take", r) EXCEPT !.fails = "missed"]

Given(s, rs)   == [s EXCEPT !.given = rs]

(* A module whose init and exit run on insmod and rmmod.                   *)
Plain(init, exit, needs) ==
    [init |-> init, exit |-> exit, needs |-> needs, ends |-> {}, mayBeGone |-> {},
     fileNeeds |-> {}, owner |-> TRUE, probe |-> FALSE]

-----------------------------------------------------------------------------
(* The character device that most modules begin with.                      *)

(* class_create and device_create return error pointers, and device_create *)
(* fails when it is given one.                                             *)
DeviceInit(rest) ==
    <<Take("chrdev", rest), TakeIfNotNull("class"),
      Given(TakeIfNotNull("device"), {"class"}),
      Take("cdev", <<"device", "class">> \o rest)>>

DeviceNeeds == {<<"device", "class">>, <<"device", "chrdev">>, <<"cdev", "chrdev">>}

(* The three releases of the error labels, and of the exit functions that  *)
(* do not call cdev_del.  The last is unregister_chrdev(device_number, ..) *)
(* with a device number in the place of a major number: it finds nothing   *)
(* to release, and what alloc_chrdev_region has taken stays.               *)
DeviceUndo == <<"device", "class">>

\* The class is destroyed while it still has its device.
CharDeviceExitSwapped == <<"cdev", "class", "device">>

\* class_destroy is forgotten.
CharDeviceExitNoClass == <<"cdev", "device">>

\* cdev_del twice.
CharDeviceExitTwice == <<"cdev", "device", "class", "cdev">>

CharDeviceExit == <<"cdev">> \o DeviceUndo

\* What cdev_add returns is not stored in retval.
CharDeviceRetval ==
    Plain([DeviceInit(<<>>) EXCEPT ![4] = Silent(@, 5)], CharDeviceExit, DeviceNeeds)

\* The file operations do not name their owner.
CharDeviceUnowned ==
    [Plain(DeviceInit(<<>>), CharDeviceExit, DeviceNeeds) EXCEPT !.owner = FALSE]

CharDevice == Plain(DeviceInit(<<>>), CharDeviceExit, DeviceNeeds)
Ioctl      == Plain(DeviceInit(<<>>), CharDeviceExit, DeviceNeeds)

-----------------------------------------------------------------------------
(* Modules that use more than a character device *)

GpioDriver ==
    LET led == <<"led">> \o DeviceUndo
    IN  [Plain(DeviceInit(<<>>) \o
               <<Take("led", DeviceUndo), Check(led), Use({"button"}),
                 Take("button", led), Check(<<"button">> \o led)>>,
               <<"button", "led">> \o CharDeviceExit, DeviceNeeds)
         EXCEPT !.fileNeeds = {"led", "button"}]

(* pwm_request returns no null pointer, neither when it succeeds nor when  *)
(* it fails: the error label is reached each time, and retval is 0.        *)
PwmDriver ==
    [Plain(DeviceInit(<<>>) \o
           <<Silent(Take("pwm", DeviceUndo), 8), Give("device"), Give("class")>>,
           <<"pwm">> \o CharDeviceExit, DeviceNeeds)
     EXCEPT !.fileNeeds = {"pwm"}]

(* i2c_get_adapter returns a null pointer when it fails, and retval is 0;  *)
(* i2c_new_client_device returns an error pointer.                         *)
Bmp280I2c ==
    [Plain(DeviceInit(<<>>) \o
           <<Silent(Take("adapter", DeviceUndo), 10), TakeIfNotNull("client"),
             Take("i2cdriver", <<"client">> \o DeviceUndo),
             Give("adapter"), Use({"client"})>>,
           <<"i2cdriver", "client">> \o CharDeviceExit, DeviceNeeds)
     EXCEPT !.fileNeeds = {"client"}]

(* del_timer and its like do nothing for a timer that has expired.         *)
Timer ==
    [Plain(<<Take("led", <<>>), Check(<<"led">>), Take("timer", <<"led">>)>>,
           <<"led", "timer">>, {<<"timer", "led">>})
     EXCEPT !.ends = {"timer"}, !.mayBeGone = {"timer"}]

HighResTimer ==
    [Plain(<<Start("timer")>>, <<"timer">>, {}) EXCEPT !.ends = {"timer"}, !.mayBeGone = {"timer"}]

(* The timer is set twice; mod_timer is not 0, and the module does not get *)
(* loaded, when it was still running from the first time.                  *)
Completion ==
    [Plain(<<Start("timer"), Take("timer", <<>>)>>, <<"timer">>, {})
     EXCEPT !.ends = {"timer"}, !.mayBeGone = {"timer"}]

GpioIrq ==
    Plain(<<Take("button", <<>>), Check(<<"button">>), Take("irq", <<"button">>)>>,
          <<"irq", "button">>, {<<"irq", "button">>})

(* kthread_create and kthread_run return error pointers.                   *)
Threads ==
    Plain(<<TakeIfNotNull("thread1"), Use({"thread1"}), TakeIfNotNull("thread2")>>,
          <<"thread1", "thread2">>, {})

(* send_signal.c and poll.c have the same init and exit.                   *)
ButtonDevice ==
    LET button == <<"button">> \o DeviceUndo
    IN  Plain(DeviceInit(<<>>) \o
              <<Take("button", DeviceUndo), Check(button), Take("irq", button)>>,
              <<"irq", "button">> \o DeviceUndo,
              DeviceNeeds \cup {<<"irq", "button">>})

SendSignal == ButtonDevice
Poll       == ButtonDevice

WaitQueue ==
    Plain(DeviceInit(<<>>) \o
          <<TakeIfNotNull("thread1"), TakeIfNotNull("thread2")>>,
          <<"thread1", "thread2">> \o DeviceUndo, DeviceNeeds)

Procfs ==
    Plain(<<Take("folder", <<>>), Take("file", <<"folder">>)>>,
          <<"file", "folder">>, {<<"file", "folder">>})

Sysfs ==
    Plain(<<Take("folder", <<>>), Take("file", <<"folder">>)>>,
          <<"file", "folder">>, {<<"file", "folder">>})

ReadingDeviceTree == Plain(<<Take("driver", <<>>)>>, <<"driver">>, {})

(* The probe, which gets the LED, may fail without the module noticing.    *)
DtGpio ==
    [Plain(DeviceInit(<<>>) \o
           <<Take("driver", DeviceUndo), Silent(Take("gpiod", <<>>), 7)>>,
           <<"driver">> \o DeviceUndo, DeviceNeeds)
     EXCEPT !.fileNeeds = {"gpiod"}]

(* The file operations use the client, which the probe stores after the    *)
(* device file is there; once i2c_remove has returned the driver core      *)
(* unbinds the client, and the pointer stays.                              *)
DtI2c ==
    [Plain(DeviceInit(<<>>) \o
           <<Silent(Check(DeviceUndo), 8), Start("client"), Use({"client"})>>,
           DeviceUndo \o <<"client">>, DeviceNeeds)
     EXCEPT !.fileNeeds = {"client"}, !.probe = TRUE]

Kmalloc ==
    Plain(<<Take("ptr1", <<>>), Use({"ptr1"}), Give("ptr1"),
            Take("ptr1", <<>>), Use({"ptr1"}), Give("ptr1"),
            Take("ptr2", <<>>), Use({"ptr2"})>>, <<"ptr2">>, {})

Mutex ==
    [Plain(<<TakeIfNotNull("thread1"), Use({"thread1"}), TakeIfNotNull("thread2")>>, <<>>, {})
     EXCEPT !.ends = {"thread1", "thread2"}]

PhysicalMemory ==
    Plain(<<Take("map", <<>>), Use({"map"}), Give("map")>>, <<>>, {})

-----------------------------------------------------------------------------
(* Platform drivers at the root of the repository *)

(* The one module that looks for error pointers and that releases its      *)
(* number.  The driver core releases the devm_ resources after a failed    *)
(* probe and after the removal: the interrupt, then the mapping.           *)
PruebaTd3 ==
    LET devm   == <<"irq", "map">>
        number == <<"chrdev">> \o devm
        class  == <<"class">> \o number
    IN  [Plain(<<Check(<<>>), Take("map", <<>>), Take("irq", <<"map">>),
                 Take("chrdev", devm), Take("class", number),
                 Given(Take("device", class), {"class"}),
                 Take("cdev", <<"device">> \o class)>>,
               <<"cdev", "device">> \o class, DeviceNeeds \cup {<<"irq", "map">>})
         EXCEPT !.probe = TRUE]

HostController ==
    [Plain(<<Take("irq", <<>>), Take("cm_per", <<>>), Use({"cm_per"})>>,
           <<"cm_per", "i2c2">>, {})
     EXCEPT !.probe = TRUE]

-----------------------------------------------------------------------------
(* The driver of bmp280_driver/: driver_probe and driver_remove with the   *)
(* functions of the three layers that they call.  After its reset timed    *)
(* out cotti_i2c_init returns 0, and bmp280_init begins, at step 17.       *)
(* clk_get and devm_platform_ioremap_resource return error pointers.       *)

Maps == {"clk_map", "ctrl_map", "i2c_map"}

CottiI2cInit(resume) ==
    LET nodes == <<"pinmux_node", "clk_node">>
        clk   == <<"clk_map">> \o nodes
        ctrl  == <<"ctrl_map">> \o clk
        \* the driver core then releases the devm_ mapping
        i2c   == <<"i2c_map">> \o ctrl \o <<"i2c_map">>
    IN  <<Check(<<>>), Take("clk_node", <<>>), Take("pinmux_node", <<"clk_node">>),
          TakeIfNotNull("clk"), Use({"clk"}), Give("clk"),
          Take("clk_map", nodes), Take("ctrl_map", clk),
          TakeIfNotNull("i2c_map"), Use(Maps), Silent(Check(i2c), resume),
          Use({"i2c_map"}), Check(i2c), Take("irq", i2c),
          Give("pinmux_node"), Give("clk_node")>>

(* The mappings are tested for null pointers first.                        *)
CottiI2cDeinit == <<"clk_map", "ctrl_map", "i2c_map", "irq">>

Bmp280Init(rest) ==
    LET bus  == Use({"clk_map", "i2c_map", "irq"})
        node == <<"sensor_node">> \o rest
    IN  <<Take("sensor_node", rest), Check(node), bus, Check(node), bus,
          Start("configured")>>

Bmp280Deinit == <<"configured">>

CharDeviceCreate(rest) ==
    <<Take("name", rest)>> \o DeviceInit(<<"name">> \o rest)

CharDeviceRemove == DeviceUndo \o <<"name">>

Bmp280Driver ==
    LET i2c_error    == CottiI2cDeinit \o <<"i2c_map">>
        bmp280_error == Bmp280Deinit \o i2c_error
    IN  [init      |-> CottiI2cInit(17) \o Bmp280Init(i2c_error)
                       \o CharDeviceCreate(bmp280_error),
         exit      |-> CharDeviceRemove \o bmp280_error,
         needs     |-> DeviceNeeds \cup {<<"irq", "i2c_map">>, <<"configured", "clk_map">>,
                           <<"configured", "i2c_map">>, <<"configured", "irq">>},
         ends      |-> {},
         mayBeGone |-> {"clk_map", "ctrl_map"},
         fileNeeds |-> {"clk_map", "i2c_map", "irq", "configured"},
         owner     |-> TRUE,
         probe     |-> TRUE]

LkmTable ==
    [char_device |-> CharDevice, gpio_driver |-> GpioDriver, bmp280 |-> Bmp280I2c,
     pwm_driver |-> PwmDriver, completion |-> Completion,
     timer |-> Timer, high_res_timer |-> HighResTimer, gpio_irq |-> GpioIrq,
     ioctl |-> Ioctl, threads |-> Threads, send_signal |-> SendSignal, poll |-> Poll,
     waitqueue |-> WaitQueue, procfs |-> Procfs, sysfs |-> Sysfs,
     reading_device_tree |-> ReadingDeviceTree, dt_gpio |-> DtGpio, dt_i2c |-> DtI2c,
     kmalloc |-> Kmalloc, mutex |-> Mutex, physical_memory |-> PhysicalMemory,
     prueba_td3 |-> PruebaTd3, host_controller |-> HostController,
     bmp280_driver |-> Bmp280Driver]
=============================================================================
