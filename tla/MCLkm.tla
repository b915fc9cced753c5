-------------------------------- MODULE MCLkm --------------------------------
(* The modules of the repository, loaded and removed by TLC.               *)
EXTENDS LkmText, LkmTable

All == DOMAIN LkmTable

InEach(modules, rs) == [n \in All |-> IF n \in modules THEN rs ELSE {}]
InSome(entries)     == [n \in All |-> IF n \in DOMAIN entries THEN entries[n] ELSE {}]
f ++ g              == [n \in All |-> f[n] \cup g[n]]

\* The modules that call unregister_chrdev with a device number and compare
\* what class_create and device_create return with NULL; those among them that
\* call no cdev_del, in the exit function or after a failure of a later step.
CharDevices == {"char_device", "gpio_driver", "pwm_driver", "bmp280", "ioctl", "send_signal",
                "poll", "waitqueue", "dt_gpio", "dt_i2c", "bmp280_driver"}
NoCdevDel   == CharDevices \ {"char_device", "ioctl", "pwm_driver"}

\* Of the others: 005 keeps the adapter when a later step fails and, like 019,
\* returns 0 after it has released everything; 004 does so even when nothing
\* failed; 022 leaves a running timer behind; 006 frees the LED before the
\* timer; 021 does not wait for its threads, and 011, 014 and 021 do not see
\* that one was not created; 003 uses a pin before it requests it; 003, 005,
\* 012, 013 and 018 can fail with their file open; driver.c keeps its
\* interrupt; bmp280_driver unmaps before it frees its interrupt, and unmaps
\* twice.
KnownDefects ==
    LET device  == InEach(CharDevices, {"class", "device"})
        threads == {"thread1", "thread2"}
    IN  [NothingLeft |->
           InEach(CharDevices, {"chrdev"}) ++ InEach(NoCdevDel, {"cdev"}) ++
           InSome([bmp280 |-> {"adapter"}, bmp280_driver |-> {"sensor_node"},
                   dt_gpio |-> {"gpiod"}, completion |-> {"timer"}, mutex |-> threads,
                   host_controller |-> {"irq"}]),
         NeedsHeld |->
           InSome([timer |-> {"timer"}, bmp280_driver |-> {"irq", "configured"}]),
         ReleasedOnce |->
           device ++
           InSome([bmp280 |-> {"client", "i2cdriver"}, dt_i2c |-> {"client"},
                   bmp280_driver |-> {"clk", "i2c_map", "irq"}, pwm_driver |-> {"pwm"},
                   threads |-> threads, waitqueue |-> threads, host_controller |-> {"i2c2"}]),
         UsesHeld |->
           InSome([bmp280 |-> {"client"}, gpio_driver |-> {"button"},
                   threads |-> {"thread1"}, mutex |-> {"thread1"},
                   bmp280_driver |-> {"clk", "clk_map", "i2c_map", "irq"}]),
         LoadedMeansReady |->
           InEach(CharDevices \ {"pwm_driver"}, {"class", "device"}) ++
           InSome([bmp280 |-> {"client", "i2cdriver"}, dt_i2c |-> {"client"},
                   dt_gpio |-> {"gpiod"}, pwm_driver |-> {"pwm"},
                   threads |-> threads, waitqueue |-> threads,
                   bmp280_driver |-> Maps \cup {"irq"}]),
         FileUsable |->
           InSome([bmp280 |-> {"client", "code"}, gpio_driver |-> {"led", "button", "code"},
                   dt_gpio |-> {"gpiod", "code"}, dt_i2c |-> {"client"}, poll |-> {"code"},
                   send_signal |-> {"code"}, pwm_driver |-> {"pwm"},
                   bmp280_driver |-> {"clk_map", "i2c_map", "irq", "configured"}])]

NoDefects == [p \in DOMAIN KnownDefects |-> InEach(All, {})]
=============================================================================
