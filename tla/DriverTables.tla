----------------------------- MODULE DriverTables -----------------------------
(***************************************************************************)
(* The init and exit functions of the repository's modules as tables for   *)
(* DriverLifecycle: what init acquires, in order, with what each failure   *)
(* path releases; what exit releases, in order, and of that what it looks  *)
(* for first; through what the handlers are reached, what they use, and    *)
(* which of them put work off.                                             *)
(***************************************************************************)
EXTENDS Sequences

\* An acquisition whose failure ends init, after releasing undo.
Need(r, undo) ==
    [get |-> r, works |-> TRUE, fallible |-> TRUE, abort |-> TRUE, undo |-> undo, skip |-> 0]
\* One whose failure nobody looks at.
Try(r) ==
    [get |-> r, works |-> TRUE, fallible |-> TRUE, abort |-> FALSE, undo |-> <<>>, skip |-> 0]
\* One whose failure releases undo and goes on, leaving out some steps.
Else(r, undo, skip) ==
    [get |-> r, works |-> TRUE, fallible |-> TRUE, abort |-> FALSE, undo |-> undo, skip |-> skip]
\* One that cannot but fail, and goes on.
Never(r, undo) ==
    [get |-> r, works |-> FALSE, fallible |-> TRUE, abort |-> FALSE, undo |-> undo, skip |-> 0]
\* One that cannot fail.
Sure(r) ==
    [get |-> r, works |-> TRUE, fallible |-> FALSE, abort |-> FALSE, undo |-> <<>>, skip |-> 0]

Table(up, down, doors) == [up |-> up, down |-> down, doors |-> doors,
                           call |-> {}, irq |-> {}, work |-> {}, defers |-> {},
                           careful |-> {}]
-----------------------------------------------------------------------------
(* bottom_half                                                             *)

\* keyboard_tasklet.c: exit kills the tasklet before it frees the interrupt.
KbdTasklet == [Table(<<Try("proc"), Need("irq", <<>>)>>,
                     <<"wait", "irq", "proc">>, {"proc"}) EXCEPT !.defers = {"irq"}]

\* The workqueue destroyed before the interrupt that queues on it is freed.
AppWorkqueueWqFirst == [Table(<<Try("wq"), Try("irq")>>, <<"wait", "wq", "irq">>, {})
                            EXCEPT !.irq = {"wq"}, !.work = {"wq"}, !.defers = {"irq"}]
\* app_workqueue.c: neither result is looked at.
AppWorkqueue == [Table(<<Try("wq"), Try("irq")>>, <<"irq", "wait", "wait", "wq">>, {})
                     EXCEPT !.irq = {"wq"}, !.work = {"wq"}, !.defers = {"irq"}]

\* An exit that kills the tasklet before it frees the interrupt.
TaskDyKillFirst ==
    [Table(<<Need("region", <<>>),
             Need("cdev", <<"region">>),
             Need("class", <<"cdev", "region">>),
             Need("device", <<"class", "cdev", "region">>),
             Sure("tasklet"),
             Need("irq", <<"wait", "device", "class", "cdev", "region">>)>>,
           <<"wait", "irq", "device", "class", "cdev", "region">>, {"cdev"})
       EXCEPT !.call = {"tasklet"}, !.irq = {"tasklet"}, !.work = {"tasklet"},
              !.defers = {"call", "irq"}]
\* task_dy.c: read() calls the interrupt handler.
TaskDy ==
    [Table(<<Need("region", <<>>),
             Need("cdev", <<"region">>),
             Need("class", <<"cdev", "region">>),
             Need("device", <<"class", "cdev", "region">>),
             Sure("tasklet"),
             Need("irq", <<"wait", "device", "class", "cdev", "region">>)>>,
           <<"irq", "wait", "device", "class", "cdev", "region">>, {"cdev"})
       EXCEPT !.call = {"tasklet"}, !.irq = {"tasklet"}, !.work = {"tasklet"},
              !.defers = {"call", "irq"}]

\* tasklet_static.c
TaskletStatic ==
    [Table(<<Need("region", <<>>),
             Try("cdev"),
             Need("class", <<"cdev", "region">>),
             Need("device", <<"class", "cdev", "region">>),
             Need("irq", <<"device", "class", "cdev", "region">>)>>,
           <<"irq", "wait", "device", "class", "cdev", "region">>, {"cdev"})
       EXCEPT !.defers = {"call", "irq"}]

\* qw.c: destroy_workqueue waits for the work on it.
OwnWorkqueue ==
    [Table(<<Need("region", <<>>),
             Need("cdev", <<"region">>),
             Need("class", <<"cdev", "region">>),
             Need("device", <<"class", "cdev", "region">>),
             Need("wq", <<"device", "class", "cdev", "region">>)>>,
           <<"wait", "wq", "device", "class", "cdev", "region">>, {"cdev"})
       EXCEPT !.call = {"wq"}, !.work = {"wq"}, !.defers = {"call"}]
-----------------------------------------------------------------------------
(* interrupt_bottom_halve_tech                                             *)

\* taskletss/kbd_tasklet.c
ScancodeTasklet == [Table(<<Need("irq", <<>>)>>, <<"irq", "wait">>, {})
                        EXCEPT !.defers = {"irq"}]

\* 003_threaded_irq/003/003.c: free_irq stops the thread.
ThreadedIrq == [Table(<<Need("irq", <<>>)>>, <<"irq", "wait">>, {})
                    EXCEPT !.defers = {"irq"}]

\* 003_threaded_irq/001, 002 and 004; the top half of the first never wakes its
\* thread.
ThreadedNever == Table(<<Need("irq", <<>>)>>, <<"irq", "wait">>, {})
ThreadedOften == ThreadedIrq
ThreadedKeyboard == ThreadedIrq

\* 002_request_isr_enable_and_disable_interrupts/001/001.c: the handler fills a
\* log that exit closes, and prints, before it frees the interrupt.
KeyLogger == [Table(<<Sure("log"), Need("irq", <<>>)>>, <<"log", "irq">>, {})
                  EXCEPT !.irq = {"log"}]
\* 002_request_isr_enable_and_disable_interrupts/002/002.c, two of its 256: exit
\* passes over those it did not get.
AllIrqs == [Table(<<Try("irq1"), Try("irq2")>>, <<"irq1", "irq2">>, {})
                EXCEPT !.careful = {"irq1", "irq2"}]

\* 002_request_isr_enable_and_disable_interrupts/005/005.c
TwoIrqs == Table(<<Need("irq1", <<>>), Need("irq2", <<>>)>>, <<"irq1", "irq2">>, {})

\* An interrupt and a counter: 001_interrupt_handling_linux_kernel/002, 003, 004
\* and 002_request_isr_enable_and_disable_interrupts/003, 004, 008.
KeyCounter == Table(<<Need("irq", <<>>)>>, <<"irq">>, {})
KeyPrinter == KeyCounter
SharedIrq == KeyCounter
ProbeShared == KeyCounter
ProbeSharedQuiet == KeyCounter
SlowIrq == KeyCounter

\* 004_softirq/001/001.c: nothing closes a softirq, nothing waits for it.
SoftirqButton ==
    [Table(<<Need("gpio", <<>>), Sure("softirq"), Need("irq", <<>>)>>,
           <<"irq", "gpio">>, {})
       EXCEPT !.irq = {"softirq"}, !.work = {"softirq"}, !.defers = {"irq"}]
-----------------------------------------------------------------------------
(* ALL_IN_1                                                                *)

\* 007/io.c
ProcDemo == Table(<<Try("proc")>>, <<"proc">>, {"proc"})
\* 008/io.c
ProcWriter == Table(<<Try("proc")>>, <<"proc">>, {"proc"})
\* 023/gpiobtn_led_proc.c
GpiobtnProc == Table(<<Try("proc")>>, <<"proc">>, {"proc"})

\* 009/io.c
CharDriver == Table(<<Need("chrdev", <<>>)>>, <<"chrdev">>, {"chrdev"})
\* 011/io.c: mutex_init comes after the device is registered.
IoctlDriver == [Table(<<Need("chrdev", <<>>), Sure("mutex")>>, <<"chrdev">>, {"chrdev"})
                    EXCEPT !.call = {"mutex"}]

\* A failed device_create that leaves the class behind.
AutodevKeepsClass ==
    Table(<<Need("region", <<>>),
            Need("cdev", <<"region">>),
            Need("class", <<"cdev", "region">>),
            Need("device", <<"cdev", "region">>)>>,
          <<"device", "class", "cdev", "region">>, {"cdev"})
\* 012/io.c
Autodev ==
    Table(<<Need("region", <<>>),
            Need("cdev", <<"region">>),
            Need("class", <<"cdev", "region">>),
            Need("device", <<"class", "cdev", "region">>)>>,
          <<"device", "class", "cdev", "region">>, {"cdev"})

\* 013/io.c, with the last minor's failure leaving out a step too many.
MultiDevTooFar ==
    Table(<<Need("region", <<>>),
            Need("class", <<"region">>),
            Else("cdev0", <<>>, 1), Else("device0", <<"cdev0">>, 0),
            Else("cdev1", <<>>, 2), Else("device1", <<"cdev1">>, 0)>>,
          <<"device0", "cdev0", "device1", "cdev1", "class", "region">>,
          {"cdev0", "cdev1"})
\* 013/io.c, two of its three minors: a minor that fails is left out by init,
\* and taken down by exit all the same.
MultiDev ==
    Table(<<Need("region", <<>>),
            Need("class", <<"region">>),
            Else("cdev0", <<>>, 1), Else("device0", <<"cdev0">>, 0),
            Else("cdev1", <<>>, 1), Else("device1", <<"cdev1">>, 0)>>,
          <<"device0", "cdev0", "device1", "cdev1", "class", "region">>,
          {"cdev0", "cdev1"})

\* 014/io.c
Waitq == Table(<<Need("region", <<>>), Try("cdev"), Try("class"), Try("device")>>,
               <<"device", "class", "cdev", "region">>, {"cdev"})

\* 3_4_5_char_driver/001.c, two of its five minors: the error loop starts with
\* the minor that failed, whose device it destroys again.
PseudoDriver ==
    Table(<<Need("region", <<>>),
            Need("class", <<"region">>),
            Need("device0", <<"class", "region">>),
            Need("cdev0", <<"device0", "cdev0", "device0", "class", "region">>),
            Need("device1", <<"cdev0", "device0", "class", "region">>),
            Need("cdev1", <<"device1", "cdev1", "device1", "cdev0", "device0",
                            "class", "region">>)>>,
          <<"cdev0", "device0", "cdev1", "device1", "class", "region">>,
          {"cdev0", "cdev1"})

\* 024/gpiobtn_led_char.c, with the failure of cdev_add releasing the class.
GpiobtnLedSwapped ==
    Table(<<Need("proc", <<>>),
            Need("region", <<"proc">>),
            Need("cdev", <<"class", "region", "proc">>),
            Need("class", <<"cdev", "region", "proc">>),
            Need("device", <<"class", "cdev", "region", "proc">>)>>,
          <<"device", "class", "cdev", "region", "proc">>, {"cdev", "proc"})
\* 024/gpiobtn_led_char.c
GpiobtnLed ==
    Table(<<Need("proc", <<>>),
            Need("region", <<"proc">>),
            Need("cdev", <<"region", "proc">>),
            Need("class", <<"cdev", "region", "proc">>),
            Need("device", <<"class", "cdev", "region", "proc">>)>>,
          <<"device", "class", "cdev", "region", "proc">>, {"cdev", "proc"})

\* 025/gpiobtn_led_char_poll.c
GpiobtnPoll ==
    Table(<<Need("region", <<>>),
            Need("cdev", <<"region">>),
            Need("class", <<"cdev", "region">>),
            Try("device")>>,
          <<"device", "class", "cdev", "region">>, {"cdev"})
\* 026/tiny_gpiobtn.c
TinyGpiobtn ==
    Table(<<Need("region", <<>>),
            Need("cdev", <<"region">>),
            Need("class", <<"cdev", "region">>),
            Try("device")>>,
          <<"device", "class", "cdev", "region">>, {"cdev"})

\* A probe acquires a cdev and a device, and keeps both or none; its failure is
\* not reported to whoever added the platform device.
Probe(cdev) == Try(cdev)
\* 17/platform_driver.c, and 18/mydt_driver.c, which adds a LED to each device.
\* Adding a platform device probes it, deleting it calls remove first, if it is
\* bound.
Platform ==
    [Table(<<Need("data", <<>>),
             Need("region", <<"data">>),
             Need("class", <<"region", "data">>),
             Need("driver", <<"class", "region", "data">>),
             Need("pdev0", <<"driver", "class", "region", "data">>), Probe("cdev0"),
             Need("pdev1", <<"cdev0", "pdev0", "driver", "class", "region", "data">>),
             Probe("cdev1")>>,
           <<"cdev0", "pdev0", "cdev1", "pdev1", "driver", "class", "region", "data">>,
           {"cdev0", "cdev1"})
       EXCEPT !.call = {"data"}, !.careful = {"cdev0", "cdev1"}]
Mydt == Platform
\* 18/mydt_driver.c with a device-tree node for the index that it then adds a
\* device of its own for: the second probe sets up the same entry again, drops
\* the pointer to the LED, fails in device_create and deletes the cdev that the
\* first one has added.
MydtTree ==
    [Table(<<Need("data", <<>>),
             Need("region", <<"data">>),
             Need("class", <<"region", "data">>),
             Need("driver", <<"class", "region", "data">>), Sure("led"), Sure("cdev0"),
             Need("pdev0", <<"led", "cdev0", "driver", "class", "region", "data">>),
             Never("reprobe", <<"cdev0">>)>>,
           <<"pdev0", "cdev0", "driver", "class", "region", "data">>, {"cdev0"})
       EXCEPT !.call = {"data"}]
-----------------------------------------------------------------------------
(* beegle_bone_boards                                                      *)

\* DAC_beaglebone_black/adcDrv.c
AdcBlack ==
    Table(<<Need("region", <<>>),
            Need("cdev", <<"region">>),
            Need("class", <<"cdev", "region">>),
            Try("device")>>,
          <<"device", "class", "cdev", "region">>, {"cdev"})
\* ADC_beaglebone_blue/ADC/adcDrv.c
AdcBlue == Table(<<Try("region"), Try("cdev"), Try("class"), Try("device")>>,
                 <<"device", "class", "cdev", "region">>, {"cdev"})

\* GPIO_led_blink_beaglebone_black/gpiodrv.c, probe and remove.
MyledBlack == Table(<<Need("class", <<>>), Need("device", <<"class">>), Need("attr", <<>>)>>,
                    <<"attr", "device", "class">>, {"attr"})
\* GPIO_led_blink/gpiodrv.c, probe and remove.
MyledBlue == Table(<<Need("class", <<>>), Need("device", <<"class">>), Need("attr", <<>>)>>,
                   <<"attr", "device", "class">>, {"attr"})

\* I2C/i2c_drv.c and spi_drv.c: a driver, whose probe allocates with devm_ and
\* whose remove does nothing.
I2cTest == Table(<<Need("driver", <<>>)>>, <<"driver">>, {})
SpiTest == I2cTest
-----------------------------------------------------------------------------
Drivers == [kbd_tasklet |-> KbdTasklet, app_workqueue |-> AppWorkqueue,
            task_dy |-> TaskDy, tasklet_static |-> TaskletStatic, qw |-> OwnWorkqueue,
            scancode_tasklet |-> ScancodeTasklet, threaded_irq |-> ThreadedIrq,
            threaded_never |-> ThreadedNever, threaded_often |-> ThreadedOften,
            threaded_keyboard |-> ThreadedKeyboard, key_logger |-> KeyLogger,
            key_counter |-> KeyCounter, key_printer |-> KeyPrinter, shared_irq |-> SharedIrq,
            probe_shared |-> ProbeShared, probe_shared_quiet |-> ProbeSharedQuiet,
            slow_irq |-> SlowIrq, i2c_test |-> I2cTest, spi_test |-> SpiTest,
            all_irqs |-> AllIrqs,
            two_irqs |-> TwoIrqs, softirq_button |-> SoftirqButton,
            proc_demo |-> ProcDemo, proc_writer |-> ProcWriter, gpiobtn_proc |-> GpiobtnProc,
            char_driver |-> CharDriver, ioctl_driver |-> IoctlDriver, autodev |-> Autodev,
            multi_dev |-> MultiDev, waitq |-> Waitq, pseudo |-> PseudoDriver,
            gpiobtn_led |-> GpiobtnLed, gpiobtn_poll |-> GpiobtnPoll,
            tiny_gpiobtn |-> TinyGpiobtn, platform |-> Platform, mydt |-> Mydt,
            mydt_tree |-> MydtTree,
            adc_black |-> AdcBlack, adc_blue |-> AdcBlue,
            myled_black |-> MyledBlack, myled_blue |-> MyledBlue]

\* What is known to go wrong in them.
Listed(known) == [d \in DOMAIN Drivers |-> IF d \in DOMAIN known THEN known[d] ELSE {}]
KnownLeaks == Listed([kbd_tasklet |-> {"proc"}, two_irqs |-> {"irq1"},
                      softirq_button |-> {"gpio", "softirq"}, mydt_tree |-> {"led"},
                      myled_black |-> {"class", "device"},
                      myled_blue |-> {"class", "device"}])
KnownDoubles == Listed([multi_dev |-> {"cdev0", "cdev1"}, pseudo |-> {"cdev0", "cdev1"},
                        mydt_tree |-> {"cdev0"}])
KnownUnchecked == Listed([kbd_tasklet |-> {"proc"}, app_workqueue |-> {"wq", "irq"},
                          tasklet_static |-> {"cdev"}, proc_demo |-> {"proc"},
                          proc_writer |-> {"proc"}, gpiobtn_proc |-> {"proc"},
                          waitq |-> {"cdev", "class"}, adc_blue |-> {"region", "cdev", "class"}])
KnownGaps == Listed([task_dy |-> {<<"tasklet", "init">>, <<"tasklet", "unwind">>},
                     qw |-> {<<"wq", "init">>, <<"wq", "unwind">>},
                     ioctl_driver |-> {<<"mutex", "init">>},
                     key_logger |-> {<<"log", "exit">>},
                     platform |-> {<<"data", "unwind">>}, mydt |-> {<<"data", "unwind">>},
                     mydt_tree |-> {<<"data", "unwind">>}])
KnownLate == Listed([kbd_tasklet |-> {"exit"}, softirq_button |-> {"exit"},
                     task_dy |-> {"unwind"}, tasklet_static |-> {"unwind"}])
=============================================================================
